---- MODULE Spec2Model ----
(***************************************************************************)
(* Budget, Bill and Goal Trackers and the analytics overview of the        *)
(* personal finance tracker: the Budget model (Models/Transaction.js,      *)
(* second half) and its controller, the Bill model and its controller,     *)
(* the goal controller with the goal card's reconciliation, and the        *)
(* income / expense totals of the financial overview.                      *)
(*                                                                         *)
(* Dates are JavaScript Date values read in the server's local time zone,  *)
(* kept as records [y, m, d, t]: full year, month 0..11 (getMonth), day of *)
(* month 1..31 (getDate) and time of day t (0 = midnight, larger = later   *)
(* the same day).  Money amounts are whole currency units and ratios are   *)
(* compared by cross-multiplication (exact arithmetic).                    *)
(***************************************************************************)
EXTENDS Integers, Sequences, FiniteSets, TLC

VARIABLES budgets, transactions, resp, doc, probe, bill, now, bills, goals,
          chat, calls, contributed

vars == <<budgets, transactions, resp, doc, probe, bill, now, bills, goals,
          chat, calls, contributed>>

----------------------------------------------------------------------------
(* Calendar: what the JavaScript Date constructor and setters compute.     *)

Years == {2023, 2024}

TimesOfDay == {0, 1}

IsLeap(y) == (y % 4 = 0 /\ y % 100 # 0) \/ y % 400 = 0

DaysInMonth(y, m) ==
  IF m = 1 THEN (IF IsLeap(y) THEN 29 ELSE 28)
  ELSE IF m \in {3, 5, 8, 10} THEN 30 ELSE 31

RECURSIVE FixDay(_, _, _, _)
FixDay(y, m, d, t) ==
  IF d < 1
    THEN LET pm == IF m = 0 THEN 11 ELSE m - 1
             py == IF m = 0 THEN y - 1 ELSE y
         IN  FixDay(py, pm, d + DaysInMonth(py, pm), t)
    ELSE IF d > DaysInMonth(y, m)
      THEN LET nm == IF m = 11 THEN 0 ELSE m + 1
               ny == IF m = 11 THEN y + 1 ELSE y
           IN  FixDay(ny, nm, d - DaysInMonth(y, m), t)
      ELSE [y |-> y, m |-> m, d |-> d, t |-> t]

\* new Date(year, month, day) with a time of day: month and day overflow
\* and underflow carry into the year and the month.
MakeDate(y, m, d, t) == FixDay(y + (m \div 12), m % 12, d, t)

setDate(date, n) == MakeDate(date.y, date.m, n, date.t)

setMonth(date, n) == MakeDate(date.y, n, date.d, date.t)

setFullYear(date, y) == MakeDate(y, date.m, date.d, date.t)

\* date comparison ($lt, $lte, <, >= on Date values)
DateLT(a, b) ==
  \/ a.y < b.y
  \/ a.y = b.y /\ a.m < b.m
  \/ a.y = b.y /\ a.m = b.m /\ a.d < b.d
  \/ a.y = b.y /\ a.m = b.m /\ a.d = b.d /\ a.t < b.t

DateLE(a, b) == a = b \/ DateLT(a, b)

AllDates ==
  { [y |-> yy, m |-> mm, d |-> dd, t |-> tt] :
      yy \in Years, mm \in 0..11, dd \in 1..31, tt \in TimesOfDay }

ValidDates == { x \in AllDates : x.d <= DaysInMonth(x.y, x.m) }

NoDate == [y |-> 0, m |-> 0, d |-> 0, t |-> 0]

\* an empty collection
NoRecords == [x \in {} |-> x]

\* values of the variables a specification does not use
NoBill == [ amount |-> 0, dueDate |-> NoDate, frequency |-> "monthly",
            isPaid |-> FALSE, lastPaidDate |-> NoDate, nextDueDate |-> NoDate,
            paymentHistory |-> << >>, status |-> "none", createdDue |-> NoDate ]

NoProbe == [ amount |-> 0, spent |-> 0, warning |-> 0, danger |-> 0,
             status |-> "none", virtualStatus |-> "none" ]

NoResp == [ op |-> "", code |-> 0, error |-> "" ]

\* no chat message received
NoChat == [ message |-> "", intent |-> "none", code |-> 0 ]

\* getFinancialOverview not called
NoCalls == [ status |-> "idle", sub |-> << >> ]

----------------------------------------------------------------------------
(* Budget model: end date, status and spending.                            *)

Periods == {"weekly", "monthly", "quarterly", "yearly"}

DefaultWarning == 80

DefaultDanger == 95

\* end date of the period that starts at b.startDate (body of pre('save'))
PeriodEnd(b) ==
  LET start == b.startDate
  IN  CASE b.period = "weekly" -> setDate(start, start.d + 6)
        [] b.period = "monthly" -> MakeDate(start.y, start.m + 1, 0, 0)
        [] b.period = "quarterly" ->
             LET end == setMonth(start, start.m + 3)
             IN  setDate(end, end.d - 1)
        [] b.period = "yearly" -> MakeDate(start.y, 11, 31, 0)
        [] OTHER -> MakeDate(start.y, start.m + 1, 0, 0)

\* pre('save'): endDate follows a modified startDate or period
budgetPreSave(b, modified) ==
  IF modified \cap {"startDate", "period"} # {}
    THEN [b EXCEPT !.endDate = PeriodEnd(b)]
    ELSE b

\* mutant: exceeded only above the amount
spendingStatusStrict(amount, spent, warning, danger) ==
  IF spent > amount THEN "exceeded"
  ELSE IF spent * 100 >= danger * amount THEN "danger"
  ELSE IF spent * 100 >= warning * amount THEN "warning"
  ELSE "good"

\* status expression of getBudgetWithSpending
spendingStatus(amount, spent, warning, danger) ==
  IF spent >= amount THEN "exceeded"
  ELSE IF spent * 100 >= danger * amount THEN "danger"
  ELSE IF spent * 100 >= warning * amount THEN "warning"
  ELSE "good"

\* virtual('status'): reads this.spent, this.amount, this.alertThresholds
virtualStatus(amount, spent, warning, danger) ==
  IF spent = 0 THEN "unknown"
  ELSE IF spent * 100 >= 100 * amount THEN "exceeded"
  ELSE IF spent * 100 >= danger * amount THEN "danger"
  ELSE IF spent * 100 >= warning * amount THEN "warning"
  ELSE "good"

----------------------------------------------------------------------------
(* The end date as a function of startDate and period: a new budget        *)
(* document is drawn and saved.                                            *)

Users == {"u1", "u2"}

NewBudgetDoc(u, cat, amt, per, start) ==
  [ user |-> u, category |-> cat, amount |-> amt, period |-> per,
    startDate |-> start, endDate |-> NoDate,
    warning |-> DefaultWarning, danger |-> DefaultDanger, isActive |-> TRUE ]

NoDoc == [ b |-> NewBudgetDoc("", "", 0, "none", NoDate), saved |-> FALSE ]

InitEndDate ==
  /\ budgets = NoRecords
  /\ transactions = NoRecords
  /\ resp = NoResp
  /\ probe = NoProbe
  /\ bill = NoBill
  /\ now = NoDate
  /\ bills = NoRecords
  /\ goals = NoRecords
  /\ chat = NoChat
  /\ calls = NoCalls
  /\ contributed = NoRecords
  /\ \E start \in ValidDates, per \in Periods :
       doc = [ b |-> NewBudgetDoc("u1", "food", 300, per, start),
               saved |-> FALSE ]

saveBudgetDoc ==
  /\ ~doc.saved
  /\ doc' = [ b |-> budgetPreSave(doc.b, {"startDate", "period"}),
              saved |-> TRUE ]
  /\ UNCHANGED <<budgets, transactions, resp, probe, bill, now, bills, goals,
                 chat, calls, contributed>>

NextEndDate == saveBudgetDoc

SpecEndDate == InitEndDate /\ [][NextEndDate]_vars

----------------------------------------------------------------------------
(* The status as a function of amount, spent and thresholds.               *)

ProbeAmounts == {20, 100}

MaxSpent == 120

ThresholdPairs == { <<80, 95>>, <<50, 60>>, <<95, 80>>, <<0, 0>>, <<100, 100>> }

InitStatus ==
  /\ budgets = NoRecords
  /\ transactions = NoRecords
  /\ resp = NoResp
  /\ doc = NoDoc
  /\ bill = NoBill
  /\ now = NoDate
  /\ bills = NoRecords
  /\ goals = NoRecords
  /\ chat = NoChat
  /\ calls = NoCalls
  /\ contributed = NoRecords
  /\ \E amt \in ProbeAmounts, sp \in 0..MaxSpent, th \in ThresholdPairs :
       probe = [ amount |-> amt, spent |-> sp, warning |-> th[1],
                 danger |-> th[2], status |-> "none",
                 virtualStatus |-> "none" ]

evalStatus ==
  /\ probe.status = "none"
  /\ probe' = [ probe EXCEPT
       !.status = spendingStatus(probe.amount, probe.spent,
                                 probe.warning, probe.danger),
       !.virtualStatus = virtualStatus(probe.amount, probe.spent,
                                       probe.warning, probe.danger) ]
  /\ UNCHANGED <<budgets, transactions, resp, doc, bill, now, bills, goals,
                 chat, calls, contributed>>

NextStatus == evalStatus

SpecStatus == InitStatus /\ [][NextStatus]_vars

----------------------------------------------------------------------------
(* Budget and transaction collections and the budget controller.           *)
(* A collection maps each stored document (without its _id) to the number  *)
(* of stored copies; a request names the document its :id refers to, or    *)
(* NoBudget for an id that is not in the collection.                       *)

MaxBudgets == 2

MaxTx == 3

Categories == {"food", "housing"}

Jan1 == [y |-> 2024, m |-> 0, d |-> 1, t |-> 0]

Jan29 == [y |-> 2024, m |-> 0, d |-> 29, t |-> 0]

NoBudget == NoDoc.b

\* request bodies of POST /budget that pass validation
CreateBodies ==
  [ category : Categories, amount : {300}, period : {"weekly", "monthly"},
    startDate : {Jan1, Jan29} ]

\* request bodies of PUT /budget/:id that pass validation
UpdateBodies ==
  [ period : {"weekly", "monthly"} ] \cup [ startDate : {Jan1, Jan29} ]

Size(coll) ==
  LET RECURSIVE Count(_)
      Count(S) == IF S = {} THEN 0
                  ELSE LET x == CHOOSE e \in S : TRUE
                       IN  coll[x] + Count(S \ {x})
  IN  Count(DOMAIN coll)

\* insert one document
Put(coll, x) ==
  [ e \in DOMAIN coll \cup {x} |-> IF e \in DOMAIN coll
                                     THEN (IF e = x THEN coll[e] + 1 ELSE coll[e])
                                     ELSE 1 ]

\* remove one stored copy of x
Remove(coll, x) ==
  IF coll[x] > 1 THEN [coll EXCEPT ![x] = @ - 1]
  ELSE [ e \in DOMAIN coll \ {x} |-> coll[e] ]

\* the fields of the unique index
KeyOf(b) == <<b.user, b.category, b.period, b.startDate>>

\* mutant: the index is not unique
UniqueIndexOff(others, b) == TRUE

\* unique index { user, category, period, startDate }: document b may be
\* written next to the documents of others
UniqueIndexAllows(others, b) ==
  \A x \in DOMAIN others : KeyOf(x) # KeyOf(b)

\* mutant: every failure is reported as the generic one
createBudgetErrorGeneric(code) ==
  [ op |-> "createBudget", code |-> 500, error |-> "CREATE_BUDGET_ERROR" ]

\* catch block of createBudget
createBudgetError(code) ==
  IF code = 11000
    THEN [ op |-> "createBudget", code |-> 400, error |-> "DUPLICATE_BUDGET" ]
    ELSE [ op |-> "createBudget", code |-> 500,
           error |-> "CREATE_BUDGET_ERROR" ]

\* Budget.create(budgetData): the body over the schema defaults, the
\* caller as owner, then pre('save')
BudgetDocOf(u, body) ==
  budgetPreSave(
    NewBudgetDoc(u, body.category, body.amount, body.period, body.startDate),
    DOMAIN body)

createBudgetReq(u, body) ==
  LET b == BudgetDocOf(u, body)
  IN  /\ IF UniqueIndexAllows(budgets, b)
           THEN /\ Size(budgets) < MaxBudgets
                /\ budgets' = Put(budgets, b)
                /\ resp' = [ op |-> "createBudget", code |-> 201,
                             error |-> "" ]
           ELSE /\ budgets' = budgets
                /\ resp' = createBudgetError(11000)
      /\ UNCHANGED <<transactions, doc, probe, bill, now, bills, goals,
                     chat, calls, contributed>>

createBudget(bodies) ==
  \E u \in Users, body \in bodies : createBudgetReq(u, body)

\* findOneAndUpdate sets the fields of the body and runs no save middleware
ApplyUpdate(b, body) ==
  [ f \in DOMAIN b |-> IF f \in DOMAIN body THEN body[f] ELSE b[f] ]

updateBudgetReq(u, target, body) ==
  /\ IF target \notin DOMAIN budgets \/ target.user # u
       THEN /\ budgets' = budgets
            /\ resp' = [ op |-> "updateBudget", code |-> 404,
                         error |-> "BUDGET_NOT_FOUND" ]
       ELSE LET b == ApplyUpdate(target, body)
                others == Remove(budgets, target)
            IN  IF UniqueIndexAllows(others, b)
                  THEN /\ budgets' = Put(others, b)
                       /\ resp' = [ op |-> "updateBudget", code |-> 200,
                                    error |-> "" ]
                  ELSE /\ budgets' = budgets
                       /\ resp' = [ op |-> "updateBudget", code |-> 500,
                                    error |-> "UPDATE_BUDGET_ERROR" ]
  /\ UNCHANGED <<transactions, doc, probe, bill, now, bills, goals,
                 chat, calls, contributed>>

updateBudget(bodies) ==
  \E u \in Users, target \in DOMAIN budgets \cup {NoBudget}, body \in bodies :
    updateBudgetReq(u, target, body)

deleteBudget ==
  /\ \E u \in Users, target \in DOMAIN budgets \cup {NoBudget} :
       IF target \notin DOMAIN budgets \/ target.user # u
         THEN /\ budgets' = budgets
              /\ resp' = [ op |-> "deleteBudget", code |-> 404,
                           error |-> "BUDGET_NOT_FOUND" ]
         ELSE /\ budgets' = Remove(budgets, target)
              /\ resp' = [ op |-> "deleteBudget", code |-> 200, error |-> "" ]
  /\ UNCHANGED <<transactions, doc, probe, bill, now, bills, goals,
                 chat, calls, contributed>>

InitStore ==
  /\ budgets = NoRecords
  /\ transactions = NoRecords
  /\ resp = NoResp
  /\ doc = NoDoc
  /\ probe = NoProbe
  /\ bill = NoBill
  /\ now = NoDate
  /\ bills = NoRecords
  /\ goals = NoRecords
  /\ chat = NoChat
  /\ calls = NoCalls
  /\ contributed = NoRecords

createBudgetAny == createBudget(CreateBodies)

updateBudgetAny == updateBudget(UpdateBodies)

Next == createBudgetAny \/ updateBudgetAny \/ deleteBudget

Spec == InitStore /\ [][Next]_vars

----------------------------------------------------------------------------
(* Transactions and the spending queries of the Budget model.              *)

Dec31 == [y |-> 2023, m |-> 11, d |-> 31, t |-> 1]

Jan31 == [y |-> 2024, m |-> 0, d |-> 31, t |-> 0]

Jan31Noon == [y |-> 2024, m |-> 0, d |-> 31, t |-> 1]

TxDoc(u, ty, cat, amt, date) ==
  [ user |-> u, type |-> ty, category |-> cat, amount |-> amt, date |-> date ]

\* request bodies of POST /transactions that pass validation, with the
\* caller: food expenses of user u1 in January 2024, and transactions that
\* differ from them in owner, type, category or date
TxInputs ==
  { TxDoc("u1", "expense", "food", a, Jan31) : a \in {200, 50, 35} }
    \cup { TxDoc("u1", "expense", "food", 50, dt) :
             dt \in {Dec31, Jan1, Jan31Noon} }
    \cup { TxDoc("u2", "expense", "food", 50, Jan31),
           TxDoc("u1", "income", "food", 50, Jan31),
           TxDoc("u1", "expense", "housing", 50, Jan31) }

createTransaction ==
  /\ Size(transactions) < MaxTx
  /\ \E tx \in TxInputs : transactions' = Put(transactions, tx)
  /\ resp' = [ op |-> "createTransaction", code |-> 201, error |-> "" ]
  /\ UNCHANGED <<budgets, doc, probe, bill, now, bills, goals,
                 chat, calls, contributed>>

deleteTransaction ==
  /\ \E u \in Users, tx \in DOMAIN transactions :
       IF tx.user # u
         THEN /\ transactions' = transactions
              /\ resp' = [ op |-> "deleteTransaction", code |-> 404,
                           error |-> "TRANSACTION_NOT_FOUND" ]
         ELSE /\ transactions' = Remove(transactions, tx)
              /\ resp' = [ op |-> "deleteTransaction", code |-> 200,
                           error |-> "" ]
  /\ UNCHANGED <<budgets, doc, probe, bill, now, bills, goals,
                 chat, calls, contributed>>

\* mutant: the end of the window is exclusive
SpendingMatchExclusive(b, tx) ==
  /\ tx.user = b.user
  /\ tx.type = "expense"
  /\ tx.category = b.category
  /\ DateLE(b.startDate, tx.date)
  /\ DateLT(tx.date, b.endDate)

\* $match stage of getBudgetWithSpending
SpendingMatch(b, tx) ==
  /\ tx.user = b.user
  /\ tx.type = "expense"
  /\ tx.category = b.category
  /\ DateLE(b.startDate, tx.date)
  /\ DateLE(tx.date, b.endDate)

\* $group stage: no document when nothing matched, else the one group
\* { total: $sum amount, count: $sum 1 }
SpendingGroup(b, txs) ==
  LET matched == { tx \in DOMAIN txs : SpendingMatch(b, tx) }
      RECURSIVE Total(_)
      Total(S) == IF S = {} THEN 0
                  ELSE LET x == CHOOSE e \in S : TRUE
                       IN  x.amount * txs[x] + Total(S \ {x})
      RECURSIVE Count(_)
      Count(S) == IF S = {} THEN 0
                  ELSE LET x == CHOOSE e \in S : TRUE
                       IN  txs[x] + Count(S \ {x})
  IN  IF matched = {} THEN << >>
      ELSE << [ total |-> Total(matched), count |-> Count(matched) ] >>

\* the fields getBudgetWithSpending adds to budget.toObject(), computed
\* over the transaction collection txs; percentage is the ratio num / den
BudgetWithSpending(b, txs) ==
  LET spentResult == SpendingGroup(b, txs)
      spent == IF Len(spentResult) > 0 THEN spentResult[1].total ELSE 0
      transactionCount == IF Len(spentResult) > 0 THEN spentResult[1].count
                          ELSE 0
  IN  [ budget |-> b,
        spent |-> spent,
        remaining |-> b.amount - spent,
        percentage |-> [ num |-> spent * 100, den |-> b.amount ],
        transactionCount |-> transactionCount,
        status |-> spendingStatus(b.amount, spent, b.warning, b.danger) ]

getBudgetWithSpending(b) == BudgetWithSpending(b, transactions)

\* mutant: the owner is not part of the filter
UserBudgetsFilterAnyUser(b, userId, isActive) == b.isActive = isActive

\* find({ user: userId, isActive }) of getUserBudgetsWithSpending
UserBudgetsFilter(b, userId, isActive) ==
  b.user = userId /\ b.isActive = isActive

\* getUserBudgetsWithSpending(userId, isActive): each found budget, in as
\* many entries as it has stored copies, with its spending
getUserBudgetsWithSpending(userId, isActive) ==
  [ b \in { x \in DOMAIN budgets : UserBudgetsFilter(x, userId, isActive) }
      |-> [ entries |-> budgets[b], data |-> getBudgetWithSpending(b) ] ]

\* the default parameter isActive = true
getUserBudgetsWithSpendingDefault(userId) ==
  getUserBudgetsWithSpending(userId, TRUE)

SpendingBodies ==
  [ category : Categories, amount : {300}, period : {"monthly"},
    startDate : {Jan1} ]

ActiveBodies == [ isActive : BOOLEAN ]

createBudgetMonthly == createBudget(SpendingBodies)

updateBudgetActive == updateBudget(ActiveBodies)

NextSpending ==
  \/ createBudgetMonthly
  \/ updateBudgetActive
  \/ createTransaction
  \/ deleteTransaction

SpecSpending == InitStore /\ [][NextSpending]_vars

\* the ledger under budgets that stay as created
NextLedger == createBudgetMonthly \/ createTransaction \/ deleteTransaction

SpecLedger == InitStore /\ [][NextLedger]_vars

\* the (startDate, endDate) arguments of getFinancialOverview: both
\* undefined, or January 2024
OverviewPeriods ==
  { [ startDate |-> NoDate, endDate |-> NoDate ],
    [ startDate |-> Jan1, endDate |-> Jan31 ] }

\* mutant: the end of the period is exclusive
TotalMatchOpenEnd(tx, userId, type, period) ==
  /\ tx.user = userId
  /\ tx.type = type
  /\ (period.startDate # NoDate /\ period.endDate # NoDate)
       => (DateLE(period.startDate, tx.date) /\ DateLT(tx.date, period.endDate))

\* matchStage of getTotalIncome / getTotalExpenses
TotalMatch(tx, userId, type, period) ==
  /\ tx.user = userId
  /\ tx.type = type
  /\ (period.startDate # NoDate /\ period.endDate # NoDate)
       => (DateLE(period.startDate, tx.date) /\ DateLE(tx.date, period.endDate))

\* { $group: { _id: null, total: { $sum: '$amount' } } }: no group at all
\* when nothing matches
TotalGroup(txs, userId, type, period) ==
  LET M == { tx \in DOMAIN txs : TotalMatch(tx, userId, type, period) }
      RECURSIVE Sum(_)
      Sum(S) == IF S = {} THEN 0
                ELSE LET x == CHOOSE e \in S : TRUE
                     IN  x.amount * txs[x] + Sum(S \ {x})
  IN  IF M = {} THEN << >> ELSE << [ total |-> Sum(M) ] >>

getTotalIncome(userId, period) ==
  TotalGroup(transactions, userId, "income", period)

getTotalExpenses(userId, period) ==
  TotalGroup(transactions, userId, "expense", period)

\* getFinancialOverview: the summary; savingsRate as the ratio num / den
getFinancialOverview(userId, period) ==
  LET totalIncome == getTotalIncome(userId, period)
      totalExpenses == getTotalExpenses(userId, period)
      income == IF totalIncome = << >> THEN 0 ELSE totalIncome[1].total
      expenses == IF totalExpenses = << >> THEN 0 ELSE totalExpenses[1].total
      balance == income - expenses
  IN  [ summary |->
          [ totalIncome |-> income,
            totalExpenses |-> expenses,
            balance |-> balance,
            savingsRate |-> IF income > 0
                              THEN [ num |-> balance * 100, den |-> income ]
                              ELSE [ num |-> 0, den |-> 1 ] ] ]

----------------------------------------------------------------------------
(* Bill model: recurrence step and payment.                                *)

Frequencies ==
  {"weekly", "bi-weekly", "monthly", "quarterly", "semi-annually", "yearly"}

MaxPayments == 12

calculateNextDueDate(b) ==
  LET currentDue == b.dueDate
      nextDue == currentDue
  IN  CASE b.frequency = "weekly" -> setDate(nextDue, currentDue.d + 7)
        [] b.frequency = "bi-weekly" -> setDate(nextDue, currentDue.d + 14)
        [] b.frequency = "monthly" -> setMonth(nextDue, currentDue.m + 1)
        [] b.frequency = "quarterly" -> setMonth(nextDue, currentDue.m + 3)
        [] b.frequency = "semi-annually" -> setMonth(nextDue, currentDue.m + 6)
        [] b.frequency = "yearly" -> setFullYear(nextDue, currentDue.y + 1)
        [] OTHER -> setMonth(nextDue, currentDue.m + 1)

\* pre('save'): nextDueDate follows a modified dueDate or frequency
billPreSave(b, modified) ==
  IF modified \cap {"dueDate", "frequency"} # {}
    THEN [b EXCEPT !.nextDueDate = calculateNextDueDate(b)]
    ELSE b

BillAmounts == {40}

BillDueDates == { x \in ValidDates : x.t = 0 }

\* Bill.create(billData): schema defaults, then pre('save')
NewBill(due, freq, amt) ==
  billPreSave(
    [ amount |-> amt, dueDate |-> due, frequency |-> freq, isPaid |-> FALSE,
      lastPaidDate |-> NoDate, nextDueDate |-> NoDate,
      paymentHistory |-> << >>, status |-> "active", createdDue |-> due ],
    {"dueDate", "frequency"})

PaidNow == [y |-> 2024, m |-> 5, d |-> 15, t |-> 1]

\* request bodies of PATCH /bills/:id/paid; amount 0 stands for an omitted
\* amount, paidDate NoDate for an omitted paidDate and method "" for an
\* omitted method
PaymentBodies == { [amount |-> 0, paidDate |-> NoDate, method |-> ""] }

\* mutant: the payment method falls back to cash
paymentDetailsCash(body, b, today) ==
  [ amount |-> IF body.amount # 0 THEN body.amount ELSE b.amount,
    paidDate |-> IF body.paidDate # NoDate THEN body.paidDate ELSE today,
    method |-> IF body.method # "" THEN body.method ELSE "cash" ]

\* markBillAsPaid: the paymentDetails built from req.body, today = new Date()
paymentDetails(body, b, today) ==
  [ amount |-> IF body.amount # 0 THEN body.amount ELSE b.amount,
    paidDate |-> IF body.paidDate # NoDate THEN body.paidDate ELSE today,
    method |-> IF body.method # "" THEN body.method ELSE "other" ]

\* mutant: paying opens the next cycle of the bill as unpaid
markAsPaidNextCycle(b, details, today) ==
  LET paid == IF details.paidDate # NoDate THEN details.paidDate ELSE today
      entry == [ amount |-> IF details.amount # 0
                              THEN details.amount ELSE b.amount,
                 paidDate |-> paid,
                 method |-> IF details.method # ""
                              THEN details.method ELSE "other" ]
      b1 == [b EXCEPT !.isPaid = TRUE, !.lastPaidDate = paid,
                      !.paymentHistory = Append(@, entry)]
      b2 == [b1 EXCEPT !.dueDate = calculateNextDueDate(b1),
                       !.isPaid = FALSE]
  IN  billPreSave(b2, {"isPaid", "lastPaidDate", "paymentHistory", "dueDate"})

\* methods.markAsPaid(paymentDetails), today = new Date(); ends in save()
markAsPaid(b, details, today) ==
  LET paid == IF details.paidDate # NoDate THEN details.paidDate ELSE today
      entry == [ amount |-> IF details.amount # 0
                              THEN details.amount ELSE b.amount,
                 paidDate |-> paid,
                 method |-> IF details.method # ""
                              THEN details.method ELSE "other" ]
      b1 == [b EXCEPT !.isPaid = TRUE, !.lastPaidDate = paid,
                      !.paymentHistory = Append(@, entry)]
      b2 == [b1 EXCEPT !.dueDate = calculateNextDueDate(b1)]
  IN  billPreSave(b2, {"isPaid", "lastPaidDate", "paymentHistory", "dueDate"})

\* PATCH /bills/:id/paid on the bill held in bill
payBill(bodies, limit) ==
  /\ Len(bill.paymentHistory) < limit
  /\ \E body \in bodies :
       bill' = markAsPaid(bill, paymentDetails(body, bill, now), now)
  /\ UNCHANGED <<budgets, transactions, resp, doc, probe, now, bills, goals,
                 chat, calls, contributed>>

markBillAsPaid == payBill(PaymentBodies, MaxPayments)

InitBill ==
  /\ budgets = NoRecords
  /\ transactions = NoRecords
  /\ resp = NoResp
  /\ doc = NoDoc
  /\ probe = NoProbe
  /\ \E due \in BillDueDates, freq \in Frequencies, amt \in BillAmounts :
       bill = NewBill(due, freq, amt)
  /\ now = PaidNow
  /\ bills = NoRecords
  /\ goals = NoRecords
  /\ chat = NoChat
  /\ calls = NoCalls
  /\ contributed = NoRecords

NextBill == markBillAsPaid

SpecBill == InitBill /\ [][NextBill]_vars

\* payments with every combination of given and omitted body fields
MaxPaid == 2

PayDueDates ==
  { [y |-> 2023, m |-> 0, d |-> 31, t |-> 0],
    [y |-> 2024, m |-> 0, d |-> 15, t |-> 0],
    [y |-> 2024, m |-> 1, d |-> 29, t |-> 0],
    [y |-> 2023, m |-> 11, d |-> 25, t |-> 0] }

PayClock == { PaidNow, [y |-> 2024, m |-> 0, d |-> 20, t |-> 0] }

PaidEarlier == [y |-> 2024, m |-> 0, d |-> 10, t |-> 1]

AllPaymentBodies ==
  [ amount : {0, 25, 40}, paidDate : {NoDate, PaidEarlier},
    method : {"", "cash"} ]

markBillAsPaidAny == payBill(AllPaymentBodies, MaxPaid)

InitPay ==
  /\ budgets = NoRecords
  /\ transactions = NoRecords
  /\ resp = NoResp
  /\ doc = NoDoc
  /\ probe = NoProbe
  /\ \E due \in PayDueDates, freq \in Frequencies, amt \in BillAmounts :
       bill = NewBill(due, freq, amt)
  /\ now \in PayClock
  /\ bills = NoRecords
  /\ goals = NoRecords
  /\ chat = NoChat
  /\ calls = NoCalls
  /\ contributed = NoRecords

NextPay == markBillAsPaidAny

SpecPay == InitPay /\ [][NextPay]_vars

----------------------------------------------------------------------------
(* Bill controller over the stored bills, with the server clock.          *)

MaxBills == 2

MaxBillPaid == 1

BillStatuses == {"active", "paused", "cancelled"}

DefaultDays == 7

Today0 == [y |-> 2024, m |-> 0, d |-> 29, t |-> 1]

ClockEnd == [y |-> 2024, m |-> 0, d |-> 31, t |-> 1]

\* Bill.create({...req.body, user}): schema defaults, then pre('save')
BillDocOf(u, body) ==
  [ user |-> u, reminderDays |-> body.reminderDays ]
    @@ NewBill(body.dueDate, body.frequency, body.amount)

\* stands for an id that finds no bill
NoBillDoc == [ user |-> "", reminderDays |-> 0 ] @@ NoBill

\* request bodies of POST /bills that pass validation
CreateBillBodies ==
  { [ amount |-> 40, frequency |-> "monthly", reminderDays |-> 3,
      dueDate |-> [y |-> 2024, m |-> 1, d |-> 3, t |-> 0] ],
    [ amount |-> 40, frequency |-> "monthly", reminderDays |-> 10,
      dueDate |-> [y |-> 2024, m |-> 1, d |-> 5, t |-> 1] ],
    [ amount |-> 40, frequency |-> "weekly", reminderDays |-> 3,
      dueDate |-> [y |-> 2024, m |-> 0, d |-> 30, t |-> 1] ],
    [ amount |-> 40, frequency |-> "weekly", reminderDays |-> 3,
      dueDate |-> [y |-> 2024, m |-> 0, d |-> 20, t |-> 0] ] }

\* request bodies of PUT /bills/:id: pause, resume, cancel
UpdateBillBodies == [ status : BillStatuses ]

\* the bills each user asks to create: all of them by u1, one by u2
CreateBillRequests ==
  { r \in [ user : Users, body : CreateBillBodies ] :
      r.user = "u2" => (r.body.frequency = "weekly" /\ r.body.dueDate.d = 20) }

createBill ==
  /\ Size(bills) < MaxBills
  /\ \E r \in CreateBillRequests :
       /\ bills' = Put(bills, BillDocOf(r.user, r.body))
       /\ resp' = [ op |-> "createBill", code |-> 201, error |-> "" ]
  /\ UNCHANGED <<budgets, transactions, doc, probe, bill, now, goals,
                 chat, calls, contributed>>

\* PUT /bills/:id: findOneAndUpdate({_id, user}, req.body)
updateBillReq(u, target, body) ==
  /\ IF target \notin DOMAIN bills \/ target.user # u
       THEN /\ bills' = bills
            /\ resp' = [ op |-> "updateBill", code |-> 404,
                         error |-> "BILL_NOT_FOUND" ]
       ELSE /\ bills' = Put(Remove(bills, target), ApplyUpdate(target, body))
            /\ resp' = [ op |-> "updateBill", code |-> 200, error |-> "" ]
  /\ UNCHANGED <<budgets, transactions, doc, probe, bill, now, goals,
                 chat, calls, contributed>>

updateBill ==
  \E u \in Users, target \in DOMAIN bills \cup {NoBillDoc},
     body \in UpdateBillBodies : updateBillReq(u, target, body)

deleteBill ==
  /\ \E u \in Users, target \in DOMAIN bills \cup {NoBillDoc} :
       IF target \notin DOMAIN bills \/ target.user # u
         THEN /\ bills' = bills
              /\ resp' = [ op |-> "deleteBill", code |-> 404,
                           error |-> "BILL_NOT_FOUND" ]
         ELSE /\ bills' = Remove(bills, target)
              /\ resp' = [ op |-> "deleteBill", code |-> 200, error |-> "" ]
  /\ UNCHANGED <<budgets, transactions, doc, probe, bill, now, goals,
                 chat, calls, contributed>>

\* PATCH /bills/:id/paid: findOne({_id, user}), then markAsPaid
markBillAsPaidUpTo(u, target, body, limit) ==
  /\ IF target \notin DOMAIN bills \/ target.user # u
       THEN /\ bills' = bills
            /\ resp' = [ op |-> "markBillAsPaid", code |-> 404,
                         error |-> "BILL_NOT_FOUND" ]
       ELSE /\ Len(target.paymentHistory) < limit
            /\ bills' = Put(Remove(bills, target),
                            markAsPaid(target,
                                       paymentDetails(body, target, now), now))
            /\ resp' = [ op |-> "markBillAsPaid", code |-> 200, error |-> "" ]
  /\ UNCHANGED <<budgets, transactions, doc, probe, bill, now, goals,
                 chat, calls, contributed>>

markBillAsPaidReq(u, target, body) ==
  markBillAsPaidUpTo(u, target, body, MaxBillPaid)

markStoredBillAsPaid ==
  \E u \in Users, target \in DOMAIN bills \cup {NoBillDoc},
     body \in PaymentBodies : markBillAsPaidReq(u, target, body)

\* time passes on the server
tick ==
  /\ DateLT(now, ClockEnd)
  /\ now' = setDate(now, now.d + 1)
  /\ UNCHANGED <<budgets, transactions, resp, doc, probe, bill, bills, goals,
                 chat, calls, contributed>>

\* .sort({ dueDate: 1 }) of the documents S of coll, each stored copy once
RECURSIVE SortByDueDate(_, _)
SortByDueDate(coll, S) ==
  IF S = {} THEN << >>
  ELSE LET x == CHOOSE e \in S : \A o \in S : DateLE(e.dueDate, o.dueDate)
       IN  [ i \in 1..coll[x] |-> x ] \o SortByDueDate(coll, S \ {x})

\* the find() filter of getUpcomingBills; futureDate.setDate(getDate() + days)
UpcomingFilter(b, userId, days, today) ==
  /\ b.user = userId
  /\ b.status = "active"
  /\ b.isPaid = FALSE
  /\ DateLE(today, b.dueDate)
  /\ DateLE(b.dueDate, setDate(today, today.d + days))

\* statics.getUpcomingBills(userId, days), today = new Date()
getUpcomingBills(userId, days, today) ==
  SortByDueDate(bills,
    { b \in DOMAIN bills : UpcomingFilter(b, userId, days, today) })

\* req.query.days of GET /bills/upcoming: omitted, or a whole number
DaysQueries ==
  { [given |-> FALSE, value |-> 0] } \cup [ given : {TRUE}, value : {0, 4, 7} ]

\* parseInt(req.query.days) || 7
daysOf(q) == IF q.given /\ q.value # 0 THEN q.value ELSE DefaultDays

\* GET /bills/upcoming: data.bills
getUpcomingBillsReq(userId, q, today) ==
  getUpcomingBills(userId, daysOf(q), today)

\* mutant: a bill due at this very instant counts as overdue
OverdueFilterInclusive(b, userId, today) ==
  /\ b.user = userId
  /\ b.status = "active"
  /\ b.isPaid = FALSE
  /\ DateLE(b.dueDate, today)

\* the find() filter of getOverdueBills
OverdueFilter(b, userId, today) ==
  /\ b.user = userId
  /\ b.status = "active"
  /\ b.isPaid = FALSE
  /\ DateLT(b.dueDate, today)

\* statics.getOverdueBills(userId), today = new Date()
getOverdueBills(userId, today) ==
  SortByDueDate(bills, { b \in DOMAIN bills : OverdueFilter(b, userId, today) })

\* virtual('isOverdue')
isOverdue(b, today) ==
  IF b.isPaid THEN FALSE ELSE DateLT(b.dueDate, today)

InitBills ==
  /\ budgets = NoRecords
  /\ transactions = NoRecords
  /\ resp = NoResp
  /\ doc = NoDoc
  /\ probe = NoProbe
  /\ bill = NoBill
  /\ now = Today0
  /\ bills = NoRecords
  /\ goals = NoRecords
  /\ chat = NoChat
  /\ calls = NoCalls
  /\ contributed = NoRecords

NextBills ==
  \/ createBill
  \/ updateBill
  \/ deleteBill
  \/ markStoredBillAsPaid
  \/ tick

SpecBills == InitBills /\ [][NextBills]_vars

\* the stored bills read at one instant of the server clock
DueClock == { Today0, [y |-> 2024, m |-> 0, d |-> 30, t |-> 1] }

InitDue ==
  /\ budgets = NoRecords
  /\ transactions = NoRecords
  /\ resp = NoResp
  /\ doc = NoDoc
  /\ probe = NoProbe
  /\ bill = NoBill
  /\ now \in DueClock
  /\ bills = NoRecords
  /\ goals = NoRecords
  /\ chat = NoChat
  /\ calls = NoCalls
  /\ contributed = NoRecords

NextDue == createBill \/ updateBill \/ markStoredBillAsPaid

SpecDue == InitDue /\ [][NextDue]_vars

----------------------------------------------------------------------------
(* Goal Tracker: the goal controller behind the route validators, the      *)
(* contribution method and derived fields of the Goal model (not among     *)
(* the sources: as the specification describes them), and the goal card's  *)
(* reconciliation of currentAmount with the linked transactions.           *)

GoalIds == {"g1", "g2"}

\* goalId: null
NoGoalId == ""

\* a number field the request body does not carry
Omitted == -1000

MaxSaved == 130

PageLimit == 10

\* request bodies of POST /goals and PUT /goals/:id
GoalBodies ==
  { [ name |-> TRUE, targetAmount |-> 100, currentAmount |-> Omitted ],
    [ name |-> TRUE, targetAmount |-> 100, currentAmount |-> 100 ],
    [ name |-> TRUE, targetAmount |-> 100, currentAmount |-> -5 ],
    [ name |-> FALSE, targetAmount |-> Omitted, currentAmount |-> 60 ] }

\* req.body.amount of PATCH /goals/:id/progress
ContributionAmounts == {Omitted, 0, -5, 30}

\* mutant: currentAmount is not checked
goalValidationNoMinimum(body) ==
  /\ body.name
  /\ body.targetAmount # Omitted /\ body.targetAmount > 0

\* goalValidation: name and targetAmount required, currentAmount optional
goalValidation(body) ==
  /\ body.name
  /\ body.targetAmount # Omitted /\ body.targetAmount > 0
  /\ body.currentAmount = Omitted \/ body.currentAmount >= 0

\* Goal.create({...req.body, user})
GoalDocOf(u, body) ==
  [ user |-> u, targetAmount |-> body.targetAmount,
    currentAmount |-> IF body.currentAmount = Omitted
                        THEN 0 ELSE body.currentAmount ]

\* findOneAndUpdate sets the number fields the body carries
ApplyGoalUpdate(g, body) ==
  [ g EXCEPT !.targetAmount = IF body.targetAmount = Omitted
                                THEN @ ELSE body.targetAmount,
             !.currentAmount = IF body.currentAmount = Omitted
                                 THEN @ ELSE body.currentAmount ]

\* goal.addContribution(amount)
addContribution(g, amount) ==
  [ g EXCEPT !.currentAmount = @ + amount ]

\* virtual progressPercentage, as the ratio num / den
progressPercentage(g) ==
  IF g.currentAmount * 100 >= 100 * g.targetAmount
    THEN [ num |-> 100, den |-> 1 ]
    ELSE [ num |-> g.currentAmount * 100, den |-> g.targetAmount ]

\* virtual remainingAmount
remainingAmount(g) ==
  IF g.targetAmount - g.currentAmount >= 0
    THEN g.targetAmount - g.currentAmount ELSE 0

createGoalReq(u, body) ==
  /\ IF ~goalValidation(body)
       THEN /\ goals' = goals
            /\ resp' = [ op |-> "createGoal", code |-> 400,
                         error |-> "errors" ]
       ELSE /\ \E id \in GoalIds \ DOMAIN goals :
                 /\ \A o \in GoalIds \ DOMAIN goals : id = "g1" \/ o # "g1"
                 /\ goals' = (id :> GoalDocOf(u, body)) @@ goals
            /\ resp' = [ op |-> "createGoal", code |-> 201, error |-> "" ]
  /\ UNCHANGED <<budgets, transactions, doc, probe, bill, now, bills,
                 chat, calls, contributed>>

createGoal == \E u \in Users, body \in GoalBodies : createGoalReq(u, body)

\* PUT /goals/:id
updateGoalReq(u, id, body) ==
  /\ IF ~goalValidation(body)
       THEN /\ goals' = goals
            /\ resp' = [ op |-> "updateGoal", code |-> 400,
                         error |-> "errors" ]
       ELSE IF id \notin DOMAIN goals \/ goals[id].user # u
         THEN /\ goals' = goals
              /\ resp' = [ op |-> "updateGoal", code |-> 404,
                           error |-> "Goal not found" ]
         ELSE /\ goals' = [ goals EXCEPT ![id] = ApplyGoalUpdate(@, body) ]
              /\ resp' = [ op |-> "updateGoal", code |-> 200, error |-> "" ]
  /\ UNCHANGED <<budgets, transactions, doc, probe, bill, now, bills,
                 chat, calls, contributed>>

updateGoal ==
  \E u \in Users, id \in GoalIds, body \in GoalBodies :
    updateGoalReq(u, id, body)

\* mutant: only negative amounts are refused
invalidAmountNegative(amount) == amount # Omitted /\ amount < 0

\* !amount || amount <= 0
invalidAmount(amount) == amount = Omitted \/ amount = 0 \/ amount <= 0

\* PATCH /goals/:id/progress
updateGoalProgressReq(u, id, amount) ==
  /\ IF invalidAmount(amount)
       THEN /\ goals' = goals
            /\ resp' = [ op |-> "updateGoalProgress", code |-> 400,
                         error |-> "Valid amount is required" ]
       ELSE IF id \notin DOMAIN goals \/ goals[id].user # u
         THEN /\ goals' = goals
              /\ resp' = [ op |-> "updateGoalProgress", code |-> 404,
                           error |-> "Goal not found" ]
         ELSE /\ goals[id].currentAmount + amount <= MaxSaved
              /\ goals' = [ goals EXCEPT ![id] = addContribution(@, amount) ]
              /\ resp' = [ op |-> "updateGoalProgress", code |-> 200,
                           error |-> "" ]
  /\ UNCHANGED <<budgets, transactions, doc, probe, bill, now, bills,
                 chat, calls, contributed>>

updateGoalProgress ==
  \E u \in Users, id \in GoalIds, amount \in ContributionAmounts :
    updateGoalProgressReq(u, id, amount)

\* a transaction carrying a goalId
LinkedTx(u, ty, amt, date, goalId) ==
  TxDoc(u, ty, "salary", amt, date) @@ [ goalId |-> goalId ]

\* request bodies of POST /transactions with their caller: income and
\* expense linked to goal g1, an unlinked income, another user's income
\* carrying the same goalId
LinkedTxInputs ==
  { LinkedTx("u1", "income", 30, Jan31, "g1"),
    LinkedTx("u1", "expense", 70, Jan1, "g1"),
    LinkedTx("u1", "income", 30, Jan31, NoGoalId),
    LinkedTx("u2", "income", 30, Jan31, "g1") }

createLinkedTransaction(inputs, limit) ==
  /\ Size(transactions) < limit
  /\ \E tx \in inputs : transactions' = Put(transactions, tx)
  /\ resp' = [ op |-> "createTransaction", code |-> 201, error |-> "" ]
  /\ UNCHANGED <<budgets, doc, probe, bill, now, bills, goals,
                 chat, calls, contributed>>

\* .sort({ date: -1 }) of the documents S of coll, each stored copy once
RECURSIVE SortByDateDesc(_, _)
SortByDateDesc(coll, S) ==
  IF S = {} THEN << >>
  ELSE LET x == CHOOSE e \in S : \A o \in S : DateLE(o.date, e.date)
       IN  [ i \in 1..coll[x] |-> x ] \o SortByDateDesc(coll, S \ {x})

\* GET /transactions?goalId=...: data.transactions of the page
getTransactions(userId, goalId, page, limit) ==
  LET found == SortByDateDesc(transactions,
                 { tx \in DOMAIN transactions :
                     tx.user = userId /\ tx.goalId = goalId })
      skip == (page - 1) * limit
      last == IF skip + limit <= Len(found) THEN skip + limit ELSE Len(found)
  IN  SubSeq(found, skip + 1, last)

\* goal card: the income entries of the fetched list, summed
RECURSIVE incomeTotal(_)
incomeTotal(list) ==
  IF list = << >> THEN 0
  ELSE (IF Head(list).type = "income" THEN Head(list).amount ELSE 0)
         + incomeTotal(Tail(list))

\* goal card of goal id shown to its owner u: totalSaved
totalSaved(u, id) == incomeTotal(getTransactions(u, id, 1, PageLimit))

\* goal card effect: fetch the linked transactions, and write the income
\* total back through PUT /goals/:id when it differs from currentAmount
fetchGoalTransactions ==
  \E id \in DOMAIN goals :
    LET u == goals[id].user
    IN  /\ totalSaved(u, id) # goals[id].currentAmount
        /\ updateGoalReq(u, id, [ name |-> FALSE, targetAmount |-> Omitted,
                                  currentAmount |-> totalSaved(u, id) ])

InitGoals ==
  /\ budgets = NoRecords
  /\ transactions = NoRecords
  /\ resp = NoResp
  /\ doc = NoDoc
  /\ probe = NoProbe
  /\ bill = NoBill
  /\ now = NoDate
  /\ bills = NoRecords
  /\ goals = NoRecords
  /\ chat = NoChat
  /\ calls = NoCalls
  /\ contributed = NoRecords

\* the transactions of user u1 linked to goal g1
OwnLinkedTxInputs ==
  { tx \in LinkedTxInputs : tx.user = "u1" /\ tx.goalId = "g1" }

createLinkedTransactionAny == createLinkedTransaction(OwnLinkedTxInputs, MaxTx)

NextGoals ==
  \/ createGoal
  \/ updateGoal
  \/ updateGoalProgress
  \/ createLinkedTransactionAny
  \/ fetchGoalTransactions

SpecGoals == InitGoals /\ [][NextGoals]_vars

\* the goal card with more linked transactions than one page holds
MaxLinked == 11

CardGoalBodies ==
  { [ name |-> TRUE, targetAmount |-> 100, currentAmount |-> Omitted ] }

createGoalForCard ==
  \E body \in CardGoalBodies : createGoalReq("u1", body)

createLinkedTransactionMany == createLinkedTransaction(LinkedTxInputs, MaxLinked)

NextCard ==
  \/ createGoalForCard
  \/ createLinkedTransactionMany
  \/ fetchGoalTransactions

SpecCard == InitGoals /\ [][NextCard]_vars

\* the two writers of currentAmount on one goal: contributions, of which
\* contributed keeps the accepted amounts per goal (history beside the
\* store), and the write-back of the linked income total through update
MaxContributed == 60

Accepted(ledger, id, amount) ==
  IF id \in DOMAIN ledger
    THEN [ ledger EXCEPT ![id] = @ + amount ]
    ELSE (id :> amount) @@ ledger

\* PATCH /goals/:id/progress by the owner with a valid amount
acceptedContribution ==
  \E id \in DOMAIN goals, amount \in ContributionAmounts :
    /\ ~invalidAmount(amount)
    /\ goals[id].currentAmount + amount <= MaxSaved
    /\ Accepted(contributed, id, amount)[id] <= MaxContributed
    /\ goals' = [ goals EXCEPT ![id] = addContribution(@, amount) ]
    /\ contributed' = Accepted(contributed, id, amount)
    /\ resp' = [ op |-> "updateGoalProgress", code |-> 200, error |-> "" ]
    /\ UNCHANGED <<budgets, transactions, doc, probe, bill, now, bills,
                   chat, calls>>

\* a caller reconciles: PUT /goals/:id with the goal's name and target and
\* currentAmount = the income total of the linked transactions
reconcileGoal ==
  \E id \in DOMAIN goals :
    LET u == goals[id].user
    IN  /\ totalSaved(u, id) # goals[id].currentAmount
        /\ updateGoalReq(u, id, [ name |-> TRUE,
                                  targetAmount |-> goals[id].targetAmount,
                                  currentAmount |-> totalSaved(u, id) ])

NextWriters ==
  \/ createGoalForCard
  \/ createLinkedTransactionAny
  \/ acceptedContribution
  \/ fetchGoalTransactions
  \/ reconcileGoal

SpecWriters == InitGoals /\ [][NextWriters]_vars

----------------------------------------------------------------------------
(* Ownership: update requests whose body is whatever the client sends,     *)
(* the owner field included.                                               *)

\* request bodies of PUT /transactions/:id
TxUpdateBodies == [ amount : {35} ] \cup [ user : Users ]

\* stands for an id that finds no transaction
NoTxDoc == TxDoc("", "", "", 0, NoDate)

\* PUT /transactions/:id: findOneAndUpdate({_id, user}, req.body)
updateTransactionReq(u, target, body) ==
  /\ IF target \notin DOMAIN transactions \/ target.user # u
       THEN /\ transactions' = transactions
            /\ resp' = [ op |-> "updateTransaction", code |-> 404,
                         error |-> "TRANSACTION_NOT_FOUND" ]
       ELSE /\ transactions' = Put(Remove(transactions, target),
                                   ApplyUpdate(target, body))
            /\ resp' = [ op |-> "updateTransaction", code |-> 200,
                         error |-> "" ]
  /\ UNCHANGED <<budgets, doc, probe, bill, now, bills, goals,
                 chat, calls, contributed>>

updateTransaction ==
  \E u \in Users, target \in DOMAIN transactions \cup {NoTxDoc},
     body \in TxUpdateBodies : updateTransactionReq(u, target, body)

\* request bodies of PUT /bills/:id
OwnerBillBodies == UpdateBillBodies \cup [ user : Users ]

updateBillAny ==
  \E u \in Users, target \in DOMAIN bills \cup {NoBillDoc},
     body \in OwnerBillBodies : updateBillReq(u, target, body)

MaxOwned == 2

\* one transaction per user
OwnerTxInputs ==
  { TxDoc(u, "expense", "food", 50, Jan31) : u \in Users }

createOwnedTransaction ==
  /\ Size(transactions) < MaxOwned
  /\ \E tx \in OwnerTxInputs : transactions' = Put(transactions, tx)
  /\ resp' = [ op |-> "createTransaction", code |-> 201, error |-> "" ]
  /\ UNCHANGED <<budgets, doc, probe, bill, now, bills, goals,
                 chat, calls, contributed>>

\* one bill per user
OwnerBillRequests ==
  { r \in [ user : Users, body : CreateBillBodies ] :
      r.body.frequency = "weekly" /\ r.body.dueDate.d = 20 }

createOwnedBill ==
  /\ Size(bills) < MaxOwned
  /\ \E r \in OwnerBillRequests :
       /\ bills' = Put(bills, BillDocOf(r.user, r.body))
       /\ resp' = [ op |-> "createBill", code |-> 201, error |-> "" ]
  /\ UNCHANGED <<budgets, transactions, doc, probe, bill, now, goals,
                 chat, calls, contributed>>

NextOwner ==
  \/ createOwnedTransaction
  \/ updateTransaction
  \/ deleteTransaction
  \/ createOwnedBill
  \/ updateBillAny
  \/ deleteBill

SpecOwner == InitBills /\ [][NextOwner]_vars

\* a bill paid more than once while the clock runs on
MaxRepaid == 2

markStoredBillAgain ==
  \E u \in Users, target \in DOMAIN bills \cup {NoBillDoc},
     body \in PaymentBodies : markBillAsPaidUpTo(u, target, body, MaxRepaid)

MaxRepaidBills == 1

createRepaidBill ==
  /\ Size(bills) < MaxRepaidBills
  /\ \E r \in OwnerBillRequests :
       /\ bills' = Put(bills, BillDocOf(r.user, r.body))
       /\ resp' = [ op |-> "createBill", code |-> 201, error |-> "" ]
  /\ UNCHANGED <<budgets, transactions, doc, probe, bill, now, goals,
                 chat, calls, contributed>>

NextPaid ==
  \/ createRepaidBill
  \/ updateBill
  \/ markStoredBillAgain
  \/ tick

SpecPaid == InitBills /\ [][NextPaid]_vars

----------------------------------------------------------------------------
(* Analytics: budget utilization, goal progress and the financial health   *)
(* score, each over the stored documents and a set of record-store         *)
(* queries that reject.  Ratios are records [num, den] with den > 0.       *)

\* the record-store queries of utils/analytics
Queries ==
  { "getTotalIncome", "getTotalExpenses", "getExpensesByCategory",
    "getMonthlyTrends", "getUserBudgetsWithSpending", "Goal.find",
    "getUpcomingBills", "Transaction.find", "incomeCategories" }

\* no query rejects, or one of them does
Failures == {{}} \cup { {q} : q \in Queries }

\* a rejected promise
Rejected == [ rejected |-> TRUE ]

Zero == [ num |-> 0, den |-> 1 ]

\* the value getBudgetUtilization returns for no budgets and in its catch
NoUtilization ==
  [ totalBudgets |-> 0, totalAllocated |-> 0, totalSpent |-> 0,
    utilizationRate |-> Zero,
    budgetsByStatus |-> [ good |-> 0, warning |-> 0, danger |-> 0,
                          exceeded |-> 0 ] ]

\* budgets.reduce((sum, b) => sum + f(b), 0) over the list's entries
ReduceBudgets(found, f(_)) ==
  LET RECURSIVE Sum(_)
      Sum(S) == IF S = {} THEN 0
                ELSE LET b == CHOOSE e \in S : TRUE
                     IN  found[b].entries * f(found[b].data) + Sum(S \ {b})
  IN  Sum(DOMAIN found)

\* mutant: the budget amounts are not added up
budgetUtilizationOfFirst(found) ==
  LET one(b) == 1
      amount(b) == b.budget.amount
      spent(b) == b.spent
      first == found[CHOOSE b \in DOMAIN found : TRUE].data
      totalAllocated == first.budget.amount
      totalSpent == ReduceBudgets(found, spent)
      count(status) ==
        LET is(b) == IF b.status = status THEN 1 ELSE 0
        IN  ReduceBudgets(found, is)
  IN  IF ReduceBudgets(found, one) = 0 THEN NoUtilization
      ELSE [ totalBudgets |-> ReduceBudgets(found, one),
             totalAllocated |-> totalAllocated,
             totalSpent |-> totalSpent,
             utilizationRate |->
               IF totalAllocated > 0
                 THEN [ num |-> totalSpent * 100, den |-> totalAllocated ]
                 ELSE Zero,
             budgetsByStatus |->
               [ good |-> count("good"), warning |-> count("warning"),
                 danger |-> count("danger"), exceeded |-> count("exceeded") ] ]

\* getBudgetUtilization over the list getUserBudgetsWithSpending found
budgetUtilizationOf(found) ==
  LET one(b) == 1
      amount(b) == b.budget.amount
      spent(b) == b.spent
      totalAllocated == ReduceBudgets(found, amount)
      totalSpent == ReduceBudgets(found, spent)
      count(status) ==
        LET is(b) == IF b.status = status THEN 1 ELSE 0
        IN  ReduceBudgets(found, is)
  IN  IF ReduceBudgets(found, one) = 0 THEN NoUtilization
      ELSE [ totalBudgets |-> ReduceBudgets(found, one),
             totalAllocated |-> totalAllocated,
             totalSpent |-> totalSpent,
             utilizationRate |->
               IF totalAllocated > 0
                 THEN [ num |-> totalSpent * 100, den |-> totalAllocated ]
                 ELSE Zero,
             budgetsByStatus |->
               [ good |-> count("good"), warning |-> count("warning"),
                 danger |-> count("danger"), exceeded |-> count("exceeded") ] ]

\* getBudgetUtilization: the catch block answers a rejected query
getBudgetUtilization(userId, failing) ==
  IF "getUserBudgetsWithSpending" \in failing THEN NoUtilization
  ELSE budgetUtilizationOf(getUserBudgetsWithSpending(userId, TRUE))

\* the sum of the goals' currentAmount / targetAmount * 100
RECURSIVE ProgressSum(_, _)
ProgressSum(gs, S) ==
  IF S = {} THEN Zero
  ELSE LET id == CHOOSE e \in S : TRUE
           rest == ProgressSum(gs, S \ {id})
       IN  [ num |-> gs[id].currentAmount * 100 * rest.den
                       + rest.num * gs[id].targetAmount,
             den |-> gs[id].targetAmount * rest.den ]

\* getGoalProgress: no catch block
getGoalProgress(userId, failing) ==
  LET found == { id \in DOMAIN goals : goals[id].user = userId }
      sum == ProgressSum(goals, found)
  IN  IF "Goal.find" \in failing THEN Rejected
      ELSE IF found = {}
        THEN [ totalGoals |-> 0, averageProgress |-> Zero ]
        ELSE [ totalGoals |-> Cardinality(found),
               averageProgress |->
                 [ num |-> sum.num, den |-> sum.den * Cardinality(found) ] ]

\* the queries Promise.all of getFinancialOverview waits for and that can
\* reject (getBudgetUtilization catches its own)
OverviewQueries ==
  { "getTotalIncome", "getTotalExpenses", "getExpensesByCategory",
    "getMonthlyTrends", "Goal.find", "getUpcomingBills" }

\* getFinancialOverview with its budgets and goals parts
overview(userId, period, failing) ==
  IF OverviewQueries \cap failing # {} THEN Rejected
  ELSE [ summary |-> getFinancialOverview(userId, period).summary,
         budgets |-> getBudgetUtilization(userId, failing),
         goals |-> getGoalProgress(userId, failing) ]

\* { $match: { user, type: 'income' } }, { $group: { _id: '$category' } }
incomeCategories(userId) ==
  { tx.category : tx \in { x \in DOMAIN transactions :
                             x.user = userId /\ x.type = "income" } }

\* mutant: bill payment weighs 20
weightsHeavy ==
  [ savingsRate |-> 30, budgetCompliance |-> 25, goalProgress |-> 20,
    billPayment |-> 20, diversification |-> 10 ]

weights ==
  [ savingsRate |-> 30, budgetCompliance |-> 25, goalProgress |-> 20,
    billPayment |-> 15, diversification |-> 10 ]

\* Math.round of a number given in tenths
MathRound(tenths) == (tenths + 5) \div 10

\* mutant: a savings rate below 20 earns nothing
savingsPointsAllOrNothing(rate) ==
  IF rate.num >= 20 * rate.den THEN weights.savingsRate * 10 ELSE 0

\* the points, in tenths, of the savings rate
savingsPoints(rate) ==
  IF rate.num >= 20 * rate.den THEN weights.savingsRate * 10
  ELSE IF rate.num >= 10 * rate.den THEN weights.savingsRate * 7
  ELSE IF rate.num >= 5 * rate.den THEN weights.savingsRate * 4
  ELSE IF rate.num > 0 THEN weights.savingsRate * 2
  ELSE 0

budgetPoints(util) ==
  IF util.num <= 80 * util.den THEN weights.budgetCompliance * 10
  ELSE IF util.num <= 95 * util.den THEN weights.budgetCompliance * 7
  ELSE IF util.num <= 100 * util.den THEN weights.budgetCompliance * 4
  ELSE 0

goalPoints(progress) ==
  IF progress.num >= 75 * progress.den THEN weights.goalProgress * 10
  ELSE IF progress.num >= 50 * progress.den THEN weights.goalProgress * 7
  ELSE IF progress.num >= 25 * progress.den THEN weights.goalProgress * 4
  ELSE IF progress.num > 0 THEN weights.goalProgress * 2
  ELSE 0

diversificationPoints(n) ==
  IF n >= 3 THEN weights.diversification * 10
  ELSE IF n = 2 THEN weights.diversification * 6
  ELSE IF n = 1 THEN weights.diversification * 3
  ELSE 0

\* calculateFinancialHealthScore: 0 from the catch block
calculateFinancialHealthScore(userId, failing) ==
  LET o == overview(userId, [ startDate |-> NoDate, endDate |-> NoDate ],
                    failing)
  IN  IF o = Rejected \/ "incomeCategories" \in failing THEN 0
      ELSE MathRound(savingsPoints(o.summary.savingsRate)
                       + budgetPoints(o.budgets.utilizationRate)
                       + goalPoints(o.goals.averageProgress)
                       + weights.billPayment * 10
                       + diversificationPoints(
                           Cardinality(incomeCategories(userId))))

MaxHealthTx == 3

\* request bodies of POST /budgets: one food budget of 100 for January
HealthBudgetBodies ==
  [ category : {"food"}, amount : {100}, period : {"monthly"},
    startDate : {Jan1} ]

\* the caller's incomes in three categories and food expenses in January
HealthTxInputs ==
  { TxDoc("u1", "income", c, 100, Jan31) :
      c \in {"salary", "freelance", "bonus"} }
    \cup { TxDoc("u1", "expense", "food", a, Jan31) :
             a \in {50, 85, 92, 97, 250} }

\* request bodies of POST /goals
HealthGoalBodies ==
  [ name : {TRUE}, targetAmount : {100},
    currentAmount : {Omitted, 10, 25, 50, 130} ]

createHealthBudget ==
  \E body \in HealthBudgetBodies : createBudgetReq("u1", body)

createHealthTransaction ==
  /\ Size(transactions) < MaxHealthTx
  /\ \E tx \in HealthTxInputs : transactions' = Put(transactions, tx)
  /\ resp' = [ op |-> "createTransaction", code |-> 201, error |-> "" ]
  /\ UNCHANGED <<budgets, doc, probe, bill, now, bills, goals,
                 chat, calls, contributed>>

createHealthGoal ==
  \E body \in HealthGoalBodies : createGoalReq("u1", body)

NextHealth ==
  \/ createHealthBudget
  \/ createHealthTransaction
  \/ createHealthGoal

SpecHealth == InitStore /\ [][NextHealth]_vars

----------------------------------------------------------------------------
(* Chatbot: the keyword classifier of the chat controller.  Messages are   *)
(* strings; String.prototype.includes and toLowerCase are computed         *)
(* character by character.                                                 *)

UpperCase == "ABCDEFGHIJKLMNOPQRSTUVWXYZ"

LowerCase == "abcdefghijklmnopqrstuvwxyz"

\* message.toLowerCase()
RECURSIVE toLowerCase(_)
toLowerCase(message) ==
  IF Len(message) = 0 THEN ""
  ELSE LET c == SubSeq(message, 1, 1)
           I == { i \in 1..Len(UpperCase) : SubSeq(UpperCase, i, i) = c }
           l == IF I = {} THEN c
                ELSE LET i == CHOOSE k \in I : TRUE
                     IN  SubSeq(LowerCase, i, i)
       IN  l \o toLowerCase(SubSeq(message, 2, Len(message)))

\* mutant: the keyword must open the message
startsWith(message, keyword) ==
  SubSeq(message, 1, Len(keyword)) = keyword

\* message.includes(keyword)
includes(message, keyword) ==
  \E i \in 1..(Len(message) - Len(keyword) + 1) :
    SubSeq(message, i, i + Len(keyword) - 1) = keyword

\* !message.trim(): nothing but spaces
isBlank(message) ==
  \A i \in 1..Len(message) : SubSeq(message, i, i) = " "

\* the intents object, in the order Object.entries lists it
intents ==
  << [ intent |-> "greeting",
       keywords |-> { "hi", "hello", "hey", "good morning",
                      "good afternoon", "good evening" } ],
     [ intent |-> "spending_summary",
       keywords |-> { "spending", "expenses", "spent", "summary",
                      "breakdown", "categories" } ],
     [ intent |-> "budget_help",
       keywords |-> { "budget", "budgeting", "save money",
                      "reduce expenses", "cut costs" } ],
     [ intent |-> "upcoming_bills",
       keywords |-> { "bills", "payments", "due", "upcoming", "overdue",
                      "reminders" } ],
     [ intent |-> "financial_tips",
       keywords |-> { "tips", "advice", "help", "suggestions", "recommend",
                      "how to" } ],
     [ intent |-> "goal_progress",
       keywords |-> { "goal", "goals", "savings", "target", "progress",
                      "achievement" } ],
     [ intent |-> "transaction_help",
       keywords |-> { "transaction", "add expense", "add income", "record",
                      "track" } ] >>

\* the for loop of analyzeIntent from entry k on
RECURSIVE analyzeIntentFrom(_, _)
analyzeIntentFrom(message, k) ==
  IF k > Len(intents) THEN "general"
  ELSE IF \E keyword \in intents[k].keywords : includes(message, keyword)
    THEN intents[k].intent
    ELSE analyzeIntentFrom(message, k + 1)

analyzeIntent(message) == analyzeIntentFrom(message, 1)

\* the phrases of the README and of the chatbot's scenario
ReadmePhrases ==
  { "Show me my spending", "How are my budgets?", "What bills are due?",
    "Help with saving", "My goal progress" }

ChatWords ==
  { "Hello", "SPENDING", "Budget", "bills", "Tips", "goals", "record",
    "weather", "this", "what", "" }

\* req.body.message
ChatMessages ==
  ReadmePhrases \cup { a \o " " \o b : a \in ChatWords, b \in ChatWords }

InitChat ==
  /\ budgets = NoRecords
  /\ transactions = NoRecords
  /\ resp = NoResp
  /\ doc = NoDoc
  /\ probe = NoProbe
  /\ bill = NoBill
  /\ now = NoDate
  /\ bills = NoRecords
  /\ goals = NoRecords
  /\ chat \in { [ NoChat EXCEPT !.message = m ] : m \in ChatMessages }
  /\ calls = NoCalls
  /\ contributed = NoRecords

\* POST /chat/message up to the classification of the message
sendMessage ==
  /\ chat.code = 0
  /\ chat' = IF isBlank(chat.message)
               THEN [ chat EXCEPT !.code = 400 ]
               ELSE [ chat EXCEPT
                        !.intent = analyzeIntent(toLowerCase(chat.message)),
                        !.code = 200 ]
  /\ UNCHANGED <<budgets, transactions, resp, doc, probe, bill, now, bills,
                 goals, calls, contributed>>

NextChat == sendMessage

SpecChat == InitChat /\ [][NextChat]_vars

----------------------------------------------------------------------------
(* Analytics over the clock: monthly trends and spending patterns.         *)

\* the number of days from Sunday 2023-01-01 to the date
DaysSinceEpoch(date) ==
  LET RECURSIVE YearDays(_)
      YearDays(y) == IF y <= 2023 THEN 0
                     ELSE (IF IsLeap(y - 1) THEN 366 ELSE 365) + YearDays(y - 1)
      RECURSIVE MonthDays(_)
      MonthDays(m) == IF m = 0 THEN 0
                      ELSE DaysInMonth(date.y, m - 1) + MonthDays(m - 1)
  IN  YearDays(date.y) + MonthDays(date.m) + date.d - 1

\* Date.prototype.getDay(): 0 = Sunday .. 6 = Saturday
getDay(date) == DaysSinceEpoch(date) % 7

DayNames ==
  << "Sunday", "Monday", "Tuesday", "Wednesday", "Thursday", "Friday",
     "Saturday" >>

\* transactions.reduce((sum, t) => sum + t.amount, 0) over the found
\* documents S
RECURSIVE AmountOf(_)
AmountOf(S) ==
  IF S = {} THEN 0
  ELSE LET x == CHOOSE e \in S : TRUE
       IN  x.amount * transactions[x] + AmountOf(S \ {x})

\* the reduce over Object.keys(byDayOfWeek), keys in ascending order from
\* key k on, with accumulator a; a key the object lacks reads undefined
\* and undefined > x is false
RECURSIVE mostExpensiveFrom(_, _, _)
mostExpensiveFrom(byDayOfWeek, a, k) ==
  IF k > 6 THEN a
  ELSE IF k \notin DOMAIN byDayOfWeek
    THEN mostExpensiveFrom(byDayOfWeek, a, k + 1)
    ELSE LET next == IF a \in DOMAIN byDayOfWeek
                          /\ byDayOfWeek[a] > byDayOfWeek[k]
                       THEN a ELSE k
         IN  mostExpensiveFrom(byDayOfWeek, next, k + 1)

\* getSpendingPatterns: no catch block
getSpendingPatterns(userId, today, failing) ==
  LET last30Days == setDate(today, today.d - 30)
      found == { tx \in DOMAIN transactions :
                   /\ tx.user = userId
                   /\ tx.type = "expense"
                   /\ DateLE(last30Days, tx.date) }
      byDayOfWeek ==
        [ day \in { getDay(tx.date) : tx \in found } |->
            AmountOf({ tx \in found : getDay(tx.date) = day }) ]
      mostExpensiveDay == mostExpensiveFrom(byDayOfWeek, 0, 0)
  IN  IF "Transaction.find" \in failing THEN Rejected
      ELSE [ dailyAverage |-> IF found # {}
                                THEN [ num |-> AmountOf(found), den |-> 30 ]
                                ELSE Zero,
             last30DaysTotal |-> AmountOf(found),
             byDayOfWeek |-> byDayOfWeek,
             mostExpensiveDay |-> DayNames[mostExpensiveDay + 1] ]

\* getMonthlyTrends: per year and month ($month counts from 1) the income,
\* the expenses and the number of the user's transactions dated from
\* months months ago on; no catch block
getMonthlyTrends(userId, months, today, failing) ==
  LET startDate == setMonth(today, today.m - months)
      found == { tx \in DOMAIN transactions :
                   tx.user = userId /\ DateLE(startDate, tx.date) }
      of(ym, type) == { tx \in found : /\ <<tx.date.y, tx.date.m>> = ym
                                        /\ tx.type = type }
      RECURSIVE Sorted(_)
      Sorted(G) ==
        IF G = {} THEN << >>
        ELSE LET ym == CHOOSE g \in G :
                         \A o \in G : g[1] * 12 + g[2] <= o[1] * 12 + o[2]
             IN  << [ year |-> ym[1], month |-> ym[2] + 1,
                      income |-> AmountOf(of(ym, "income")),
                      expenses |-> AmountOf(of(ym, "expense")),
                      transactionCount |->
                        Size([ tx \in of(ym, "income") \cup of(ym, "expense")
                                 |-> transactions[tx] ]) ] >>
                   \o Sorted(G \ {ym})
  IN  IF "getMonthlyTrends" \in failing THEN Rejected
      ELSE Sorted({ <<tx.date.y, tx.date.m>> : tx \in found })

MaxPatternTx == 3

\* expenses of user u1 around the thirty days before the clock, on Sundays,
\* Mondays and a Thursday, and transactions that differ in type and owner
PatternTxInputs ==
  { TxDoc("u1", "expense", "food", 50, [y |-> 2023, m |-> 11, d |-> 29, t |-> 1]),
    TxDoc("u1", "expense", "food", 50, [y |-> 2023, m |-> 11, d |-> 30, t |-> 1]),
    TxDoc("u1", "expense", "food", 50, [y |-> 2024, m |-> 0, d |-> 21, t |-> 0]),
    TxDoc("u1", "expense", "food", 50, [y |-> 2024, m |-> 0, d |-> 22, t |-> 0]),
    TxDoc("u1", "expense", "food", 35, [y |-> 2024, m |-> 0, d |-> 28, t |-> 0]),
    TxDoc("u1", "expense", "food", 50, [y |-> 2024, m |-> 1, d |-> 1, t |-> 0]),
    TxDoc("u1", "income", "salary", 50, [y |-> 2024, m |-> 0, d |-> 22, t |-> 0]),
    TxDoc("u2", "expense", "food", 50, [y |-> 2024, m |-> 0, d |-> 22, t |-> 0]) }

createPatternTransaction ==
  /\ Size(transactions) < MaxPatternTx
  /\ \E tx \in PatternTxInputs : transactions' = Put(transactions, tx)
  /\ resp' = [ op |-> "createTransaction", code |-> 201, error |-> "" ]
  /\ UNCHANGED <<budgets, doc, probe, bill, now, bills, goals,
                 chat, calls, contributed>>

NextPatterns ==
  \/ createPatternTransaction
  \/ deleteTransaction
  \/ tick

SpecPatterns == InitBills /\ [][NextPatterns]_vars

----------------------------------------------------------------------------
(* getFinancialOverview as a computation: Promise.all over the seven       *)
(* promises its argument list creates.                                     *)

\* the seven elements of the array passed to Promise.all
SubQueries ==
  { "getTotalIncome", "getTotalExpenses", "getExpensesByCategory",
    "getMonthlyTrends", "getBudgetUtilization", "getGoalProgress",
    "getUpcomingBills" }

\* how a pending promise of the array can settle: getBudgetUtilization
\* catches the rejection of its query
Settlements(q) ==
  IF q = "getBudgetUtilization" THEN {"fulfilled"}
  ELSE {"fulfilled", "rejected"}

\* mutant: the promise of Promise.race
raceFulfilled(sub) == \E q \in DOMAIN sub : sub[q] = "fulfilled"

\* Promise.all fulfils when every element has fulfilled
allFulfilled(sub) == \A q \in DOMAIN sub : sub[q] = "fulfilled"

\* Promise.all rejects as soon as one element has rejected
anyRejected(sub) == \E q \in DOMAIN sub : sub[q] = "rejected"

\* getFinancialOverview is called: the array is built, which starts all
\* seven queries, and the function waits at await Promise.all
callOverview ==
  /\ calls.status = "idle"
  /\ calls' = [ status |-> "pending",
                sub |-> [ q \in SubQueries |-> "pending" ] ]
  /\ UNCHANGED <<budgets, transactions, resp, doc, probe, bill, now, bills,
                 goals, chat, contributed>>

\* the record store answers one of the queries
settle ==
  /\ \E q \in DOMAIN calls.sub :
       /\ calls.sub[q] = "pending"
       /\ \E outcome \in Settlements(q) :
            calls' = [ calls EXCEPT !.sub[q] = outcome ]
  /\ UNCHANGED <<budgets, transactions, resp, doc, probe, bill, now, bills,
                 goals, chat, contributed>>

\* the await resumes with all seven results: the composed object is
\* returned
returnOverview ==
  /\ calls.status = "pending"
  /\ allFulfilled(calls.sub)
  /\ calls' = [ calls EXCEPT !.status = "returned" ]
  /\ UNCHANGED <<budgets, transactions, resp, doc, probe, bill, now, bills,
                 goals, chat, contributed>>

\* the await throws: the catch block logs and rethrows
rejectOverview ==
  /\ calls.status = "pending"
  /\ anyRejected(calls.sub)
  /\ calls' = [ calls EXCEPT !.status = "rejected" ]
  /\ UNCHANGED <<budgets, transactions, resp, doc, probe, bill, now, bills,
                 goals, chat, contributed>>

NextOverview ==
  \/ callOverview
  \/ settle
  \/ returnOverview
  \/ rejectOverview

SpecOverview == InitStore /\ [][NextOverview]_vars

\* every query is answered and every continuation runs
SpecOverviewFair == SpecOverview /\ WF_vars(NextOverview)

----------------------------------------------------------------------------
(* Calendar arithmetic the claims are stated in: a date plus whole days,   *)
(* and a date plus calendar months that stays in the target month.         *)

Min(a, b) == IF a <= b THEN a ELSE b

NextDay(x) ==
  IF x.d < DaysInMonth(x.y, x.m) THEN [x EXCEPT !.d = x.d + 1]
  ELSE IF x.m < 11 THEN [x EXCEPT !.m = x.m + 1, !.d = 1]
  ELSE [x EXCEPT !.y = x.y + 1, !.m = 0, !.d = 1]

PrevDay(x) ==
  IF x.d > 1 THEN [x EXCEPT !.d = x.d - 1]
  ELSE IF x.m > 0 THEN [x EXCEPT !.m = x.m - 1, !.d = DaysInMonth(x.y, x.m - 1)]
  ELSE [x EXCEPT !.y = x.y - 1, !.m = 11, !.d = 31]

RECURSIVE AddDays(_, _)
AddDays(x, n) == IF n = 0 THEN x ELSE AddDays(NextDay(x), n - 1)

AddMonths(x, n) ==
  LET mi == x.m + n
      y2 == x.y + (mi \div 12)
      m2 == mi % 12
  IN  [x EXCEPT !.y = y2, !.m = m2, !.d = Min(x.d, DaysInMonth(y2, m2))]

CalendarDay(x) == <<x.y, x.m, x.d>>

MonthIndex(x) == x.y * 12 + x.m

----------------------------------------------------------------------------
(* Claims.                                                                 *)

\* the transactions the claim counts for budget b
InWindowExpenses(b) ==
  { tx \in DOMAIN transactions :
      /\ tx.type = "expense"
      /\ tx.user = b.user
      /\ tx.category = b.category
      /\ ~DateLT(tx.date, b.startDate)
      /\ ~DateLT(b.endDate, tx.date) }

RECURSIVE SumOfAmounts(_)
SumOfAmounts(S) ==
  IF S = {} THEN 0
  ELSE LET x == CHOOSE e \in S : TRUE
       IN  x.amount * transactions[x] + SumOfAmounts(S \ {x})

RECURSIVE NumberOf(_)
NumberOf(S) ==
  IF S = {} THEN 0
  ELSE LET x == CHOOSE e \in S : TRUE
       IN  transactions[x] + NumberOf(S \ {x})

\* C1: for every stored budget, getBudgetWithSpending returns spent = the
\* sum of the amounts of exactly the owner's expense transactions of the
\* budget's category dated within [startDate, endDate] inclusive,
\* transactionCount = their number, remaining = amount - spent and
\* percentage = spent / amount * 100; two such transactions of 200 and 50
\* give spent = 250.
C1_ComputeSpending ==
  \A b \in DOMAIN budgets :
    LET r == getBudgetWithSpending(b)
        M == InWindowExpenses(b)
    IN  /\ r.spent = SumOfAmounts(M)
        /\ r.transactionCount = NumberOf(M)
        /\ r.remaining = b.amount - r.spent
        /\ r.percentage.num * b.amount = r.spent * 100 * r.percentage.den
        /\ (NumberOf(M) = 2 /\ { x.amount : x \in M } = {200, 50})
             => r.spent = 250

C1_Witness ==
  \E b \in DOMAIN budgets :
    /\ getBudgetWithSpending(b).spent = 250
    /\ getBudgetWithSpending(b).transactionCount = 2
    /\ b.amount = 300
    /\ \E tx \in DOMAIN transactions : tx.date = b.endDate
    /\ \E tx \in DOMAIN transactions : tx \notin InWindowExpenses(b)

Rank(status) ==
  CASE status = "good" -> 0
    [] status = "warning" -> 1
    [] status = "danger" -> 2
    [] status = "exceeded" -> 3

\* C3: for a budget that stays as it is, with thresholds 80 and 95, a step
\* that does not lower spent never moves the status reported by
\* getBudgetWithSpending backward in good, warning, danger, exceeded, and
\* the status is good below 80%, warning from 80%, danger from 95% and
\* exceeded from 100% of the amount.
C3_StatusMonotone ==
  [][ \A b \in DOMAIN budgets :
        LET before == BudgetWithSpending(b, transactions)
            after == BudgetWithSpending(b, transactions')
        IN  (b \in DOMAIN budgets' /\ b.warning = 80 /\ b.danger = 95
               /\ after.spent >= before.spent)
            => /\ Rank(after.status) >= Rank(before.status)
               /\ after.status =
                    IF after.spent * 100 >= 100 * b.amount THEN "exceeded"
                    ELSE IF after.spent * 100 >= 95 * b.amount THEN "danger"
                    ELSE IF after.spent * 100 >= 80 * b.amount THEN "warning"
                    ELSE "good" ]_vars

C3_Witness ==
  \E b \in DOMAIN budgets :
    /\ b.warning = 80 /\ b.danger = 95
    /\ getBudgetWithSpending(b).status = "exceeded"
    /\ getBudgetWithSpending(b).spent = b.amount
    /\ getBudgetWithSpending(b).transactionCount = 3

\* C4: every stored budget's endDate is the end date derived from its
\* current startDate and period, after any creates and updates.
C4_EndDateFollowsUpdate ==
  \A b \in DOMAIN budgets : b.endDate = PeriodEnd(b)

\* C5: no two stored budgets have the same (user, category, period,
\* startDate), after any creates, updates and deletes.
C5_UniqueBudgetKey ==
  \A b1 \in DOMAIN budgets :
    /\ budgets[b1] = 1
    /\ \A b2 \in DOMAIN budgets :
         ( b1.user = b2.user /\ b1.category = b2.category
           /\ b1.period = b2.period /\ b1.startDate = b2.startDate )
         => b1 = b2

C5_Witness ==
  /\ Size(budgets) = 2
  /\ resp.op = "updateBudget"
  /\ resp.code = 500

\* C6: a create request whose (user, category, period, startDate) is that
\* of a stored budget is answered 400 DUPLICATE_BUDGET and leaves the
\* stored budgets unchanged.
C6_DuplicateBudgetRejected ==
  [][ \A u \in Users, body \in CreateBodies :
        ( /\ \E x \in DOMAIN budgets :
               /\ x.user = u
               /\ x.category = body.category
               /\ x.period = body.period
               /\ x.startDate = body.startDate
          /\ createBudgetReq(u, body) )
        => /\ budgets' = budgets
           /\ resp'.code = 400
           /\ resp'.error = "DUPLICATE_BUDGET" ]_vars

C6_Witness ==
  /\ resp.op = "createBudget"
  /\ resp.code = 400
  /\ resp.error = "DUPLICATE_BUDGET"
  /\ Size(budgets) >= 1

ExpectedStatus(amount, spent, warning, danger) ==
  IF spent * 100 >= 100 * amount THEN "exceeded"
  ELSE IF spent * 100 >= danger * amount THEN "danger"
  ELSE IF spent * 100 >= warning * amount THEN "warning"
  ELSE "good"

\* C2: for every budget and every spent >= 0 the derived status, as computed
\* by getBudgetWithSpending and by the model's status virtual, is exceeded
\* at spent/amount >= 100%, else danger at >= the danger threshold, else
\* warning at >= the warning threshold, else good.
C2_DerivedStatus ==
  probe.status # "none" =>
    LET e == ExpectedStatus(probe.amount, probe.spent,
                            probe.warning, probe.danger)
    IN  probe.status = e /\ probe.virtualStatus = e

RuleEnd(start, period) ==
  CASE period = "weekly" -> AddDays(start, 6)
    [] period = "monthly" -> [start EXCEPT !.d = DaysInMonth(start.y, start.m)]
    [] period = "quarterly" -> PrevDay(AddMonths(start, 3))
    [] period = "yearly" -> [start EXCEPT !.m = 11, !.d = 31]

\* C8: the endDate of a saved budget is the calendar date the period rule
\* names (weekly start + 6 days, monthly last day of the start's month,
\* quarterly start + 3 calendar months - 1 day, yearly 31 December) and is
\* never before startDate.
C8_EndDateRule ==
  doc.saved =>
    /\ CalendarDay(doc.b.endDate) =
         CalendarDay(RuleEnd(doc.b.startDate, doc.b.period))
    /\ DateLE(doc.b.startDate, doc.b.endDate)

NextOccurrence(due, frequency) ==
  CASE frequency = "weekly" -> AddDays(due, 7)
    [] frequency = "bi-weekly" -> AddDays(due, 14)
    [] frequency = "monthly" -> AddMonths(due, 1)
    [] frequency = "quarterly" -> AddMonths(due, 3)
    [] frequency = "semi-annually" -> AddMonths(due, 6)
    [] frequency = "yearly" -> AddMonths(due, 12)

\* C9: the next occurrence computed for a bill is dueDate + 7 days, + 14
\* days, + 1, 3, 6 calendar months or + 1 year by its frequency, staying in
\* the target month (on its last day) when the day does not exist there.
C9_NextOccurrence ==
  bill.status # "none" =>
    bill.nextDueDate = NextOccurrence(bill.dueDate, bill.frequency)

\* C10: a monthly bill paid k times is due k calendar months after its
\* first due month, so every step lands in the next calendar month and 12
\* steps land in the same month one year later.
C10_TwelveMonthlySteps ==
  bill.frequency = "monthly" /\ bill.status # "none" =>
    MonthIndex(bill.dueDate) =
      MonthIndex(bill.createdDue) + Len(bill.paymentHistory)

RECURSIVE Occurrence(_, _, _)
Occurrence(due, frequency, n) ==
  IF n = 0 THEN due
  ELSE NextOccurrence(Occurrence(due, frequency, n - 1), frequency)

\* C11: a payment whose amount is the bill's amount appends exactly one
\* paymentHistory entry, carrying that amount, leaves the earlier entries
\* as they were, and leaves dueDate at the next occurrence of the previous
\* dueDate for the bill's frequency.
C11_MarkPaidRoundTrip ==
  [][ \A body \in AllPaymentBodies :
        ( /\ body.amount = bill.amount
          /\ bill' = markAsPaid(bill, paymentDetails(body, bill, now), now) )
        => LET n == Len(bill.paymentHistory)
           IN  /\ Len(bill'.paymentHistory) = n + 1
               /\ bill'.paymentHistory[n + 1].amount = bill.amount
               /\ SubSeq(bill'.paymentHistory, 1, n) = bill.paymentHistory
               /\ bill'.dueDate =
                    NextOccurrence(bill.dueDate, bill.frequency) ]_vars

\* C12: a payment that omits amount, paidDate and method is recorded with
\* the bill's amount, the time of the call and method other; after every
\* payment lastPaidDate is the paidDate of the entry just appended and
\* isPaid is true.
C12_PaymentDefaults ==
  [][ LET n == Len(bill.paymentHistory)
          entry == bill'.paymentHistory[n + 1]
      IN  Len(bill'.paymentHistory) = n + 1
          => /\ bill'.lastPaidDate = entry.paidDate
             /\ bill'.isPaid
             /\ \A body \in AllPaymentBodies :
                  ( /\ body = [amount |-> 0, paidDate |-> NoDate,
                               method |-> ""]
                    /\ bill' = markAsPaid(bill,
                                 paymentDetails(body, bill, now), now) )
                  => entry = [ amount |-> bill.amount, paidDate |-> now,
                               method |-> "other" ] ]_vars

C12_Witness ==
  /\ Len(bill.paymentHistory) = 2
  /\ bill.paymentHistory[1] =
       [amount |-> 25, paidDate |-> PaidEarlier, method |-> "cash"]
  /\ bill.paymentHistory[2] =
       [amount |-> bill.amount, paidDate |-> now, method |-> "other"]
  /\ bill.lastPaidDate = now
  /\ bill.isPaid

\* C13: after any number of payments dueDate is the due date the bill was
\* created with advanced by one occurrence per paymentHistory entry.
C13_DueDateCountsPayments ==
  bill.status # "none" =>
    bill.dueDate =
      Occurrence(bill.createdDue, bill.frequency, Len(bill.paymentHistory))


Range(seq) == { seq[i] : i \in DOMAIN seq }

Ascending(seq) ==
  \A i, j \in DOMAIN seq : i < j => DateLE(seq[i].dueDate, seq[j].dueDate)

RECURSIVE Copies(_, _)
Copies(coll, S) ==
  IF S = {} THEN 0
  ELSE LET x == CHOOSE e \in S : TRUE
       IN  coll[x] + Copies(coll, S \ {x})

\* the user's active, unpaid bills
Payable(u) ==
  { b \in DOMAIN bills : b.user = u /\ b.status = "active" /\ ~b.isPaid }

\* due in n days: more than n - 1 and at most n days from now
DueIn(b, n) ==
  /\ DateLT(AddDays(now, n - 1), b.dueDate)
  /\ DateLE(b.dueDate, AddDays(now, n))

\* C14: GET /bills/upcoming with days = w returns exactly the user's
\* active, unpaid bills with now <= dueDate <= now + w days, every stored
\* bill once, in ascending dueDate order, whatever their reminderDays; a
\* bill due in 5 days is returned for w = 7 and not for w = 4.
C14_UpcomingWindow ==
  \A u \in Users :
    /\ \A q \in DaysQueries :
         q.given =>
           LET list == getUpcomingBillsReq(u, q, now)
               E == { b \in Payable(u) :
                        /\ DateLE(now, b.dueDate)
                        /\ DateLE(b.dueDate, AddDays(now, q.value)) }
           IN  /\ Range(list) = E
               /\ Len(list) = Copies(bills, E)
               /\ Ascending(list)
    /\ \A b \in Payable(u) :
         DueIn(b, 5) =>
           /\ b \in Range(getUpcomingBillsReq(u, [given |-> TRUE, value |-> 7], now))
           /\ b \notin Range(getUpcomingBillsReq(u, [given |-> TRUE, value |-> 4], now))

\* C15: the overdue list holds exactly the user's active, unpaid bills
\* with dueDate < now, every stored bill once, in ascending dueDate order;
\* no bill is in both the overdue list and an upcoming list taken at the
\* same instant; isOverdue is true exactly for an unpaid bill whose
\* dueDate is in the past.
C15_OverdueList ==
  /\ \A u \in Users :
       LET list == getOverdueBills(u, now)
           E == { b \in Payable(u) : DateLT(b.dueDate, now) }
       IN  /\ Range(list) = E
           /\ Len(list) = Copies(bills, E)
           /\ Ascending(list)
           /\ \A q \in DaysQueries :
                Range(list) \cap Range(getUpcomingBillsReq(u, q, now)) = {}
  /\ \A b \in DOMAIN bills :
       isOverdue(b, now) <=> (~b.isPaid /\ DateLT(b.dueDate, now))

C15_Witness ==
  \E u \in Users :
    /\ Len(getOverdueBills(u, now)) = 1
    /\ \E b \in Payable(u) :
         /\ b.dueDate = now
         /\ b \in Range(getUpcomingBillsReq(u, [given |-> FALSE, value |-> 0], now))

StatusCount(coll, status) ==
  Copies(coll, { b \in DOMAIN coll : b.status = status })

\* C16: a cancelled bill stays cancelled under every later update or
\* payment (the number of cancelled bills falls only by deleting one), a
\* payment changes no bill's status, and the passing of time changes no
\* bill.
C16_StatusMachine ==
  [][ /\ Size(bills') >= Size(bills)
        => StatusCount(bills', "cancelled") >= StatusCount(bills, "cancelled")
      /\ resp'.op = "markBillAsPaid"
        => \A st \in BillStatuses :
             StatusCount(bills', st) = StatusCount(bills, st)
      /\ now' # now => bills' = bills ]_vars


\* C17: a contribution request with amount > 0 on a goal of the caller
\* raises that goal's currentAmount by exactly the amount, also at or
\* above the target, and changes no other goal; with amount <= 0 or
\* missing it is refused as an invalid amount (400), and for a goal that
\* does not exist or belongs to another user as not found (404), and a
\* refused request changes no goal.
C17_AddContribution ==
  [][ \A u \in Users, id \in GoalIds, amount \in ContributionAmounts :
        updateGoalProgressReq(u, id, amount) =>
          IF amount = Omitted \/ amount <= 0
            THEN /\ resp'.code = 400
                 /\ resp'.error = "Valid amount is required"
                 /\ goals' = goals
          ELSE IF id \notin DOMAIN goals \/ goals[id].user # u
            THEN /\ resp'.code = 404
                 /\ resp'.error = "Goal not found"
                 /\ goals' = goals
          ELSE /\ resp'.code = 200
               /\ DOMAIN goals' = DOMAIN goals
               /\ goals'[id].currentAmount = goals[id].currentAmount + amount
               /\ goals'[id].targetAmount = goals[id].targetAmount
               /\ goals'[id].user = goals[id].user
               /\ \A o \in DOMAIN goals : o # id => goals'[o] = goals[o] ]_vars

C17_Witness ==
  /\ resp.op = "updateGoalProgress"
  /\ resp.code = 200
  /\ DOMAIN goals = GoalIds
  /\ \E id \in DOMAIN goals :
       /\ goals[id].targetAmount = 100
       /\ goals[id].currentAmount = 130

\* C18: every stored goal has currentAmount >= 0, its progressPercentage
\* is min(currentAmount / targetAmount * 100, 100) and its remainingAmount
\* is max(targetAmount - currentAmount, 0), so the percentage lies in
\* 0..100 and the remaining amount is never negative.
C18_GoalAmounts ==
  \A id \in DOMAIN goals :
    LET g == goals[id]
        pct == progressPercentage(g)
    IN  /\ g.currentAmount >= 0
        /\ g.targetAmount > 0
        /\ pct.den > 0
        /\ pct.num * g.targetAmount =
             pct.den * Min(g.currentAmount * 100, 100 * g.targetAmount)
        /\ 0 <= pct.num /\ pct.num <= 100 * pct.den
        /\ remainingAmount(g) =
             (IF g.targetAmount > g.currentAmount
                THEN g.targetAmount - g.currentAmount ELSE 0)
        /\ remainingAmount(g) >= 0

C18_Witness ==
  /\ \E id \in DOMAIN goals :
       /\ goals[id].currentAmount > goals[id].targetAmount
       /\ progressPercentage(goals[id]) = [ num |-> 100, den |-> 1 ]
       /\ remainingAmount(goals[id]) = 0
  /\ \E id \in DOMAIN goals :
       /\ goals[id].currentAmount = 30
       /\ remainingAmount(goals[id]) = 70
  /\ resp.op = "updateGoal"
  /\ resp.code = 400

\* the income-typed transactions of user u linked to goal id, summed
LinkedIncome(u, id) ==
  LET S == { tx \in DOMAIN transactions :
               tx.user = u /\ tx.goalId = id /\ tx.type = "income" }
      RECURSIVE Sum(_)
      Sum(T) == IF T = {} THEN 0
                ELSE LET x == CHOOSE e \in T : TRUE
                     IN  x.amount * transactions[x] + Sum(T \ {x})
  IN  Sum(S)

\* C19: the saved amount the goal card shows is the sum of all income
\* transactions of the goal's owner that carry the goal's id, whatever
\* their number, and when that sum differs from the stored currentAmount
\* the card's write-back leaves the stored currentAmount equal to it.
C19_LinkedReconciliation ==
  [][ \A id \in DOMAIN goals :
        LET u == goals[id].user
        IN  /\ totalSaved(u, id) = LinkedIncome(u, id)
            /\ ( /\ totalSaved(u, id) # goals[id].currentAmount
                 /\ updateGoalReq(u, id,
                      [ name |-> FALSE, targetAmount |-> Omitted,
                        currentAmount |-> totalSaved(u, id) ]) )
               => goals'[id].currentAmount = LinkedIncome(u, id) ]_vars


\* the transactions of user u of one type dated within the period
InPeriod(u, type, period) ==
  { tx \in DOMAIN transactions :
      /\ tx.user = u
      /\ tx.type = type
      /\ period.startDate # NoDate
           => (~DateLT(tx.date, period.startDate)
               /\ ~DateLT(period.endDate, tx.date)) }

\* C20: the overview's summary has totalIncome = the sum of the user's
\* income amounts and totalExpenses = the sum of the user's expense
\* amounts in the period, balance = totalIncome - totalExpenses and
\* savingsRate = balance / totalIncome * 100 when totalIncome > 0, else 0;
\* for a user without transactions all four are 0.
C20_OverviewSummary ==
  \A u \in Users, period \in OverviewPeriods :
    LET r == getFinancialOverview(u, period).summary
        income == SumOfAmounts(InPeriod(u, "income", period))
        expenses == SumOfAmounts(InPeriod(u, "expense", period))
    IN  /\ r.totalIncome = income
        /\ r.totalExpenses = expenses
        /\ r.balance = income - expenses
        /\ r.savingsRate.den > 0
        /\ IF income > 0
             THEN r.savingsRate.num * income
                    = (income - expenses) * 100 * r.savingsRate.den
             ELSE r.savingsRate.num = 0
        /\ (\A tx \in DOMAIN transactions : tx.user # u)
             => /\ r.totalIncome = 0 /\ r.totalExpenses = 0
                /\ r.balance = 0 /\ r.savingsRate.num = 0

C20_Witness ==
  LET january == [ startDate |-> Jan1, endDate |-> Jan31 ]
      all == [ startDate |-> NoDate, endDate |-> NoDate ]
  IN  /\ getFinancialOverview("u1", january).summary =
           [ totalIncome |-> 50, totalExpenses |-> 35, balance |-> 15,
             savingsRate |-> [ num |-> 1500, den |-> 50 ] ]
      /\ getFinancialOverview("u1", all).summary.totalExpenses = 85
      /\ getFinancialOverview("u2", all).summary.totalIncome = 0
      /\ \A tx \in DOMAIN transactions : tx.user = "u1"


\* the documents of a collection that user u owns, with their counts
OwnedBy(coll, u) ==
  [ x \in { e \in DOMAIN coll : e.user = u } |-> coll[x] ]

\* C21: an update request made with one user's identity, whatever its
\* body, leaves the transactions and the bills owned by every other user
\* as they were, and a request naming another user's entity is answered
\* not found (404) like one naming no entity.
C21_OwnershipIsolation ==
  [][ /\ \A u \in Users, target \in DOMAIN transactions \cup {NoTxDoc},
           body \in TxUpdateBodies :
           updateTransactionReq(u, target, body)
             => /\ \A other \in Users \ {u} :
                     OwnedBy(transactions', other) = OwnedBy(transactions, other)
                /\ target.user # u => resp'.code = 404
      /\ \A u \in Users, target \in DOMAIN bills \cup {NoBillDoc},
           body \in OwnerBillBodies :
           updateBillReq(u, target, body)
             => /\ \A other \in Users \ {u} :
                     OwnedBy(bills', other) = OwnedBy(bills, other)
                /\ target.user # u => resp'.code = 404 ]_vars


\* C22: the financial health score is a whole number from 0 to 100 for
\* every stored combination of transactions, budgets and goals, also with
\* a negative savings rate, a budget utilization above 100% or a goal
\* progress above 100%, and also when a query rejects.
C22_HealthScoreRange ==
  \A u \in Users, failing \in Failures :
    LET score == calculateFinancialHealthScore(u, failing)
    IN  score \in 0..100

C22_Witness ==
  LET all == [ startDate |-> NoDate, endDate |-> NoDate ]
      o == overview("u1", all, {})
  IN  /\ o.summary.savingsRate.num < 0
      /\ o.budgets.utilizationRate.num > 100 * o.budgets.utilizationRate.den
      /\ o.goals.averageProgress.num > 100 * o.goals.averageProgress.den
      /\ calculateFinancialHealthScore("u1", {}) = 38
      /\ calculateFinancialHealthScore("u1", {"Goal.find"}) = 0


\* the user's active budgets
ActiveBudgets(u) == { b \in DOMAIN budgets : b.user = u /\ b.isActive }

\* the sum of f over the stored copies of the budgets S
SumOverBudgets(S, f(_)) ==
  LET RECURSIVE Sum(_)
      Sum(T) == IF T = {} THEN 0
                ELSE LET b == CHOOSE e \in T : TRUE
                     IN  budgets[b] * f(b) + Sum(T \ {b})
  IN  Sum(S)

\* C23: over the user's active budgets, the budget utilization has
\* totalAllocated = the sum of the budget amounts, totalSpent = the sum of
\* their computed spending, utilizationRate = totalSpent / totalAllocated
\* * 100, and counts per status that add up to totalBudgets; without
\* active budgets every total and count is 0.
C23_BudgetUtilization ==
  \A u \in Users :
    LET r == getBudgetUtilization(u, {})
        A == ActiveBudgets(u)
        one(b) == 1
        amount(b) == b.amount
        spent(b) == SumOfAmounts(InWindowExpenses(b))
        c == r.budgetsByStatus
    IN  /\ r.totalBudgets = SumOverBudgets(A, one)
        /\ r.totalAllocated = SumOverBudgets(A, amount)
        /\ r.totalSpent = SumOverBudgets(A, spent)
        /\ r.utilizationRate.den > 0
        /\ A # {} => r.utilizationRate.num * r.totalAllocated
                       = r.totalSpent * 100 * r.utilizationRate.den
        /\ c.good + c.warning + c.danger + c.exceeded = r.totalBudgets
        /\ A = {} => /\ r.totalBudgets = 0 /\ r.totalAllocated = 0
                     /\ r.totalSpent = 0 /\ r.utilizationRate.num = 0
                     /\ c.good = 0 /\ c.warning = 0
                     /\ c.danger = 0 /\ c.exceeded = 0

C23_Witness ==
  LET r == getBudgetUtilization("u1", {})
  IN  /\ r.totalBudgets = 2
      /\ r.totalAllocated = 600
      /\ r.totalSpent = 300
      /\ r.budgetsByStatus.warning = 1
      /\ r.budgetsByStatus.good = 1
      /\ getBudgetUtilization("u2", {}).totalBudgets = 0


\* the product of the target amounts of the goals S
RECURSIVE TargetProduct(_)
TargetProduct(S) ==
  IF S = {} THEN 1
  ELSE LET id == CHOOSE e \in S : TRUE
       IN  goals[id].targetAmount * TargetProduct(S \ {id})

\* the sum of the goals' progress in percent, times the product P of all
\* target amounts
RECURSIVE ScaledProgress(_, _)
ScaledProgress(S, P) ==
  IF S = {} THEN 0
  ELSE LET id == CHOOSE e \in S : TRUE
       IN  (goals[id].currentAmount * 100 * P) \div goals[id].targetAmount
             + ScaledProgress(S \ {id}, P)

\* the score the rule gives user u, in tenths of a point
RuleTenths(u) ==
  LET all == [ startDate |-> NoDate, endDate |-> NoDate ]
      income == SumOfAmounts(InPeriod(u, "income", all))
      expenses == SumOfAmounts(InPeriod(u, "expense", all))
      saved == (income - expenses) * 100
      one(b) == 1
      amount(b) == b.amount
      spent(b) == SumOfAmounts(InWindowExpenses(b))
      allocated == SumOverBudgets(ActiveBudgets(u), amount)
      used == SumOverBudgets(ActiveBudgets(u), spent) * 100
      G == { id \in DOMAIN goals : goals[id].user = u }
      P == TargetProduct(G)
      progress == ScaledProgress(G, P)
      n == Cardinality(G) * P
      sources == Cardinality({ tx.category : tx \in InPeriod(u, "income", all) })
      S == IF income <= 0 THEN 0
           ELSE IF saved >= 20 * income THEN 300
           ELSE IF saved >= 10 * income THEN 210
           ELSE IF saved >= 5 * income THEN 120
           ELSE IF saved > 0 THEN 60 ELSE 0
      B == IF allocated = 0 \/ used <= 80 * allocated THEN 250
           ELSE IF used <= 95 * allocated THEN 175
           ELSE IF used <= 100 * allocated THEN 100 ELSE 0
      Gp == IF G = {} THEN 0
            ELSE IF progress >= 75 * n THEN 200
            ELSE IF progress >= 50 * n THEN 140
            ELSE IF progress >= 25 * n THEN 80
            ELSE IF progress > 0 THEN 40 ELSE 0
      D == IF sources >= 3 THEN 100
           ELSE IF sources = 2 THEN 60
           ELSE IF sources = 1 THEN 30 ELSE 0
  IN  S + B + Gp + 150 + D

IntentNames ==
  << "greeting", "spending_summary", "budget_help", "upcoming_bills",
     "financial_tips", "goal_progress", "transaction_help" >>

\* keyword occurs in text: some suffix of a prefix of text is the keyword
OccursIn(keyword, text) ==
  \E e \in 0..Len(text) :
    /\ e >= Len(keyword)
    /\ SubSeq(SubSeq(text, 1, e), e - Len(keyword) + 1, e) = keyword

\* the entries of the keyword lists a text has a keyword of
Matching(text) ==
  { k \in 1..Len(intents) :
      \E keyword \in intents[k].keywords : OccursIn(keyword, text) }

\* C24: every classified message gets exactly one of the eight intents:
\* the first intent, in the order greeting, spending_summary, budget_help,
\* upcoming_bills, financial_tips, goal_progress, transaction_help, one of
\* whose keywords occurs in the lower-cased message, and general when none
\* does; 'How are my budgets?' is budget_help, 'Show me my spending'
\* spending_summary, 'What bills are due?' upcoming_bills, 'Help with
\* saving' financial_tips and 'My goal progress' goal_progress.
C24_IntentClassifier ==
  /\ \A k \in 1..Len(intents) : intents[k].intent = IntentNames[k]
  /\ chat.code = 200 =>
       LET M == Matching(toLowerCase(chat.message))
       IN  /\ M = {} => chat.intent = "general"
           /\ M # {} => /\ chat.intent \in { IntentNames[k] : k \in M }
                        /\ \A k \in M :
                             \E j \in 1..k : IntentNames[j] = chat.intent
           /\ chat.message = "How are my budgets?"
                => chat.intent = "budget_help"
           /\ chat.message = "Show me my spending"
                => chat.intent = "spending_summary"
           /\ chat.message = "What bills are due?"
                => chat.intent = "upcoming_bills"
           /\ chat.message = "Help with saving"
                => chat.intent = "financial_tips"
           /\ chat.message = "My goal progress"
                => chat.intent = "goal_progress"

C24_Witness ==
  /\ chat.message = "Help with saving"
  /\ chat.code = 200
  /\ chat.intent = "financial_tips"


\* the weekday of a date by Zeller's congruence, 0 = Sunday
Weekday(x) ==
  LET mm == IF x.m < 2 THEN x.m + 13 ELSE x.m + 1
      yy == IF x.m < 2 THEN x.y - 1 ELSE x.y
      K == yy % 100
      J == yy \div 100
      h == (x.d + ((13 * (mm + 1)) \div 5) + K + (K \div 4) + (J \div 4)
              + 5 * J) % 7
  IN  (h + 6) % 7

\* the day thirty days before x
RECURSIVE DaysBack(_, _)
DaysBack(x, n) == IF n = 0 THEN x ELSE DaysBack(PrevDay(x), n - 1)

\* the expenses of user u dated within the thirty days up to today
Last30Expenses(u, today) ==
  { tx \in DOMAIN transactions :
      /\ tx.user = u
      /\ tx.type = "expense"
      /\ ~DateLT(tx.date, DaysBack(today, 30))
      /\ ~DateLT(today, tx.date) }

\* C28: over the user's expenses of the last 30 days, the spending
\* patterns have dailyAverage = (sum of the amounts) / 30, byDayOfWeek[k] =
\* the sum of the amounts on weekday k (0 = Sunday .. 6 = Saturday), and
\* mostExpensiveDay = a weekday of maximal total, the first of them in
\* key order when several tie.
C28_SpendingPatterns ==
  \A u \in Users :
    LET r == getSpendingPatterns(u, now, {})
        E == Last30Expenses(u, now)
        on(k) == SumOfAmounts({ tx \in E : Weekday(tx.date) = k })
        best == CHOOSE k \in 0..6 :
                  /\ \A j \in 0..6 : on(j) <= on(k)
                  /\ \A j \in 0..(k - 1) : on(j) < on(k)
    IN  /\ r.dailyAverage.num * 30 = SumOfAmounts(E) * r.dailyAverage.den
        /\ \A k \in 0..6 :
             IF k \in DOMAIN r.byDayOfWeek THEN r.byDayOfWeek[k] = on(k)
             ELSE on(k) = 0
        /\ E # {} => r.mostExpensiveDay = DayNames[best + 1]


\* C25: each aggregate function other than the overview answers a
\* rejection of its own record-store query with a zero-valued default,
\* never with a rejection: monthly trends, budget utilization, goal
\* progress, spending patterns and the financial health score.
C25_DefensiveAggregates ==
  \A u \in Users :
    /\ getMonthlyTrends(u, 12, now, {"getMonthlyTrends"}) # Rejected
    /\ getBudgetUtilization(u, {"getUserBudgetsWithSpending"}) = NoUtilization
    /\ getGoalProgress(u, {"Goal.find"}) # Rejected
    /\ getSpendingPatterns(u, now, {"Transaction.find"}) # Rejected
    /\ calculateFinancialHealthScore(u, {"incomeCategories"}) = 0


\* C26: the overview issues its seven sub-queries together, without
\* waiting for one another; it returns the composed result only when all
\* seven have fulfilled, never a partial one; once one of them has
\* rejected it never returns, and it rejects.
C26_OverviewFanOutFanIn ==
  /\ [][calls.status = "idle" /\ calls'.status # "idle"
          => /\ DOMAIN calls'.sub = SubQueries
             /\ Cardinality(SubQueries) = 7
             /\ \A q \in SubQueries : calls'.sub[q] = "pending"]_vars
  /\ [](calls.status = "returned"
          => \A q \in SubQueries : calls.sub[q] = "fulfilled")
  /\ \A q \in SubQueries :
       (calls.status # "idle" /\ calls.sub[q] = "rejected")
         ~> calls.status = "rejected"

C26_Witness ==
  /\ calls.status = "returned"
  /\ \A q \in SubQueries : calls.sub[q] = "fulfilled"


\* C27: under every interleaving of accepted contributions and
\* reconciliation writes on a goal, the goal's currentAmount still
\* includes every amount a contribution was accepted with.
C27_ContributionsKept ==
  \A id \in DOMAIN contributed :
    id \in DOMAIN goals => goals[id].currentAmount >= contributed[id]


\* C30: once a bill has been marked paid, no operation of the Bill
\* Tracker (short of a client update of isPaid itself) sets isPaid back to
\* false: the bill stays out of the upcoming and the overdue list however
\* far the clock moves past its advanced dueDate, and a further markPaid
\* still appends a payment and advances dueDate.
C30_PaidStaysPaid ==
  /\ [](\A b \in DOMAIN bills :
          Len(b.paymentHistory) > 0
            => /\ b.isPaid
               /\ \A u \in Users, days \in {DefaultDays, 30} :
                    /\ b \notin Range(getUpcomingBills(u, days, now))
                    /\ b \notin Range(getOverdueBills(u, now)))
  /\ [][\A u \in Users, target \in DOMAIN bills, body \in PaymentBodies :
          (target.user = u /\ markBillAsPaidUpTo(u, target, body, MaxRepaid))
            => \E paid \in DOMAIN bills' :
                 /\ paid.isPaid
                 /\ Len(paid.paymentHistory) = Len(target.paymentHistory) + 1
                 /\ DateLT(target.dueDate, paid.dueDate)
                 /\ paid.createdDue = target.createdDue
                 /\ bills' = Put(Remove(bills, target), paid)]_vars

C30_Witness ==
  \E b \in DOMAIN bills :
    /\ Len(b.paymentHistory) = 2
    /\ b.isPaid
    /\ b.status = "active"
    /\ DateLE(now, b.dueDate)
    /\ DateLE(b.dueDate, setDate(now, now.d + DefaultDays))


====
